---- MODULE Spec2Model ----
(***************************************************************************)
(* contindex: the decomposition-and-naming engine (internal/classifier),   *)
(* the file-name sanitizer (internal/validation), the template             *)
(* configuration (internal/config) and the convert / update commands (cmd) *)
(* as a state machine.                                                     *)
(*                                                                         *)
(* Text.  A Go string is a sequence of atoms.  Document text, titles, file *)
(* names and descriptors are sequences of one-byte atoms ("a", "#", "\n";  *)
(* "<C3>" is the byte 0xC3, "<bq>" the back quote), so Len is Go's len and *)
(* SubSeq is Go's slice.                                                   *)
(* Only the index document also holds longer atoms: a placeholder literal  *)
(* or a run of template boilerplate is one atom, and the text it denotes   *)
(* is the concatenation of its atoms.                                      *)
(***************************************************************************)
EXTENDS Integers, Sequences, FiniteSets, TLC

VARIABLES
    fa,          \* the FileAnalyzer: SourceFile content read, sections, contextFiles
    parseErr,    \* "none" before parseSourceFile, then "ok" or "scan"
    section,     \* the ContentSection handed to generateDescriptiveFileName
    fileNames,   \* what successive invocations of generateDescriptiveFileName returned
    pc,          \* position of the running command ("idle" between commands)
    files,       \* the file system: path |-> [content, mtime]
    dirs,        \* the directories that exist
    clock,       \* the file system's time stamp for a write made now
    templateFS,  \* the embedded templates: template name |-> template text
    cmd,         \* the command being run or just run: its flags and locals
    result,      \* how that command ended
    steps,       \* commands started so far
    synced       \* the index texts successive UpdateTemplateWithChapters calls wrote

vars == <<fa, parseErr, section, fileNames, pc, files, dirs, clock, templateFS, cmd,
          result, steps, synced>>

\* the variables of the file system and the commands
fsVars == <<files, dirs, clock, templateFS, cmd, result, steps, synced>>

(***************************** bounds ***************************************)
\* longest source document, in lines
MaxLines == 4
\* invocations of generateDescriptiveFileName on one section
MaxCalls == 2
\* commands run in one behaviour
MaxSteps == 2
\* writes a user makes to chapter files in one behaviour
MaxClock == 2
\* successive UpdateTemplateWithChapters calls on one index document
MaxSyncs == 2

(***************************** package strings ******************************)
Range(s) == {s[i] : i \in 1..Len(s)}

Min(S) == CHOOSE x \in S : \A y \in S : x <= y

\* unicode.IsSpace, on the white space the model's texts hold
SpaceAtoms == {" ", "\t", "\n", "\r"}

IsSpace(a) == a \in SpaceAtoms

\* strings.TrimLeft(s, cutset)
TrimLeft(s, cutset) ==
    LET keep == {i \in 1..Len(s) : s[i] \notin cutset}
    IN  IF keep = {} THEN <<>> ELSE SubSeq(s, Min(keep), Len(s))

\* strings.TrimRight(s, cutset)
TrimRight(s, cutset) ==
    LET keep == {i \in 1..Len(s) : s[i] \notin cutset}
    IN  IF keep = {} THEN <<>> ELSE SubSeq(s, 1, CHOOSE i \in keep : \A j \in keep : j <= i)

\* strings.Trim(s, cutset)
Trim(s, cutset) == TrimRight(TrimLeft(s, cutset), cutset)

\* strings.TrimSpace(s)
TrimSpace(s) == Trim(s, SpaceAtoms)

\* strings.Fields(s): the maximal runs of non-space bytes, in order
RECURSIVE Fields(_)
Fields(s) ==
    LET t == TrimLeft(s, SpaceAtoms)
    IN  IF t = <<>> THEN <<>>
        ELSE LET sp == {i \in 1..Len(t) : IsSpace(t[i])}
                 n  == IF sp = {} THEN Len(t) + 1 ELSE Min(sp)
             IN  <<SubSeq(t, 1, n - 1)>> \o Fields(SubSeq(t, n, Len(t)))

\* strings.HasPrefix(s, prefix)
HasPrefix(s, prefix) ==
    Len(s) >= Len(prefix) /\ SubSeq(s, 1, Len(prefix)) = prefix

\* strings.HasSuffix(s, suffix)
HasSuffix(s, suffix) ==
    Len(s) >= Len(suffix) /\ SubSeq(s, Len(s) - Len(suffix) + 1, Len(s)) = suffix

\* strings.TrimSuffix(s, suffix)
TrimSuffix(s, suffix) ==
    IF HasSuffix(s, suffix) THEN SubSeq(s, 1, Len(s) - Len(suffix)) ELSE s

\* strings.Index(s, substr), 1-based, 0 when substr does not occur
Index(s, substr) ==
    LET at == {i \in 1..(Len(s) - Len(substr) + 1) :
                  \A k \in 1..Len(substr) : s[i + k - 1] = substr[k]}
    IN  IF at = {} THEN 0 ELSE Min(at)

\* strings.Contains(s, substr)
Contains(s, substr) == Index(s, substr) # 0

\* a faulty replacement: strings.Replace with n = 1, the first match only
ReplaceFirst(s, old, new) ==
    LET at == Index(s, old)
    IN  IF at = 0 \/ old = <<>> THEN s
        ELSE SubSeq(s, 1, at - 1) \o new \o SubSeq(s, at + Len(old), Len(s))

\* strings.ReplaceAll(s, old, new) for a non-empty old: the non-overlapping
\* occurrences of old, left to right; the text put in is not scanned again
RECURSIVE ReplaceAll(_, _, _)
ReplaceAll(s, old, new) ==
    LET i == Index(s, old)
    IN  IF i = 0 THEN s
        ELSE SubSeq(s, 1, i - 1) \o new
                 \o ReplaceAll(SubSeq(s, i + Len(old), Len(s)), old, new)

\* strings.Join(elems, sep)
RECURSIVE Join(_, _)
Join(elems, sep) ==
    IF elems = <<>> THEN <<>>
    ELSE IF Len(elems) = 1 THEN elems[1]
    ELSE elems[1] \o sep \o Join(Tail(elems), sep)

UpperLetters == <<"A","B","C","D","E","F","G","H","I","J","K","L","M","N","O","P","Q","R","S","T","U","V","W","X","Y","Z">>

LowerLetters == <<"a","b","c","d","e","f","g","h","i","j","k","l","m","n","o","p","q","r","s","t","u","v","w","x","y","z">>

\* unicode.ToLower on one byte of the model's texts
LowerAtom(a) ==
    IF a \in Range(UpperLetters)
    THEN LowerLetters[CHOOSE i \in 1..Len(UpperLetters) : UpperLetters[i] = a]
    ELSE a

\* strings.ToLower(s)
ToLower(s) == [i \in 1..Len(s) |-> LowerAtom(s[i])]

\* regexp.MatchString for a pattern that is an alternation of literals
MatchString(pattern, s) == \E i \in 1..Len(pattern) : Contains(s, pattern[i])

(************************ internal/validation *******************************)
MaxFileNameLength == 100

\* the ReplaceAll chain of SanitizeFileName, in its order
UnsafeChars == <<"/", "\\", ":", "*", "?", "\"", "<", ">", "|">>

RECURSIVE ReplaceEach(_, _, _)
ReplaceEach(name, chars, i) ==
    IF i > Len(chars) \/ name = <<>> THEN name
    ELSE ReplaceEach(ReplaceAll(name, <<chars[i]>>, <<"-">>), chars, i + 1)

\* multipleDashPattern.ReplaceAllString(name, "-"): every run of dashes becomes one
RECURSIVE CollapseDashes(_)
CollapseDashes(name) ==
    LET i == Index(name, <<"-", "-">>)
    IN  IF i = 0 THEN name
        ELSE CollapseDashes(SubSeq(name, 1, i) \o SubSeq(name, i + 2, Len(name)))

SanitizeFileName(name) ==
    LET replaced  == ReplaceEach(name, UnsafeChars, 1)
        collapsed == CollapseDashes(replaced)
        trimmed   == Trim(collapsed, {"-"})
        cut       == IF Len(trimmed) > MaxFileNameLength
                     THEN SubSeq(trimmed, 1, MaxFileNameLength) ELSE trimmed
    IN  IF cut = <<>> THEN <<"u","n","n","a","m","e","d">> ELSE cut

(************************ internal/classifier *******************************)
MinWordCountForFile == 10

MaxDescriptiveLength == 60

TokenEstimationRatio == 4

\* a *ContentSection that is nil
Nil == [nil |-> TRUE]

\* one atom standing for a run of bytes, none of them a newline, too long for
\* the bufio.Scanner's buffer (bufio.MaxScanTokenSize)
LongRun == "<run longer than bufio.MaxScanTokenSize>"

\* bufio's dropCR
DropCR(line) ==
    IF line # <<>> /\ line[Len(line)] = "\r" THEN SubSeq(line, 1, Len(line) - 1) ELSE line

\* the lines a bufio.Scanner (ScanLines) yields from data, and whether it stopped
\* with bufio.ErrTooLong; a final line needs no newline, an empty rest gives no line
RECURSIVE ScanLines(_)
ScanLines(data) ==
    IF data = <<>> THEN [lines |-> <<>>, err |-> FALSE]
    ELSE LET nl   == {i \in 1..Len(data) : data[i] = "\n"}
             n    == IF nl = {} THEN Len(data) + 1 ELSE Min(nl)
             line == SubSeq(data, 1, n - 1)
         IN  IF LongRun \in Range(line) THEN [lines |-> <<>>, err |-> TRUE]
             ELSE LET rest == ScanLines(SubSeq(data, n + 1, Len(data)))
                  IN  [lines |-> <<DropCR(line)>> \o rest.lines, err |-> rest.err]

\* a faulty closing of a section: it is kept whatever its word count
SaveSectionUnfiltered(st, endLine) ==
    IF st.currentSection = Nil THEN st.sections
    ELSE LET content == TrimSpace(st.contentBuffer)
         IN  Append(st.sections,
                    [Title     |-> st.currentSection.Title,
                     Content   |-> content,
                     StartLine |-> st.currentSection.StartLine,
                     EndLine   |-> endLine,
                     WordCount |-> Len(Fields(content))])

\* "Save previous section" / "Handle final section": close currentSection at endLine
SaveSection(st, endLine) ==
    IF st.currentSection = Nil THEN st.sections
    ELSE LET content == TrimSpace(st.contentBuffer)
             closed  == [Title     |-> st.currentSection.Title,
                         Content   |-> content,
                         StartLine |-> st.currentSection.StartLine,
                         EndLine   |-> endLine,
                         WordCount |-> Len(Fields(content))]
         IN  IF closed.WordCount >= MinWordCountForFile
             THEN Append(st.sections, closed) ELSE st.sections

\* a faulty header test: the line is not trimmed first
IsHeaderLineUntrimmed(line) == HasPrefix(line, <<"#","#">>)

\* a faulty header test: exactly two header markers
IsHeaderLineTwoMarkersOnly(line) ==
    HasPrefix(TrimSpace(line), <<"#","#">>) /\ ~HasPrefix(TrimSpace(line), <<"#","#","#">>)

\* a faulty header test: one header marker is enough
IsHeaderLineAnyLevel(line) == HasPrefix(TrimSpace(line), <<"#">>)

\* a markdown header line of parseSourceFile
IsHeaderLine(line) == HasPrefix(TrimSpace(line), <<"#","#">>)

\* the scan loop of parseSourceFile from line lineNum on
RECURSIVE ScanLoop(_, _, _)
ScanLoop(lines, lineNum, st) ==
    IF lineNum > Len(lines) THEN st
    ELSE LET line == lines[lineNum]
         IN  IF IsHeaderLine(line)
             THEN ScanLoop(lines, lineNum + 1,
                    [sections       |-> SaveSection(st, lineNum - 1),
                     currentSection |-> [Title     |-> TrimSpace(TrimLeft(line, {"#"})),
                                         StartLine |-> lineNum],
                     contentBuffer  |-> <<>>])
             ELSE IF st.currentSection # Nil
             THEN ScanLoop(lines, lineNum + 1,
                    [st EXCEPT !.contentBuffer = @ \o line \o <<"\n">>])
             ELSE ScanLoop(lines, lineNum + 1, st)

\* parseSourceFile on the file's content: the analyzer after it and its error.
\* fa.sections is assigned only when the scanner reported no error.
parseSourceFile(analyzer, content) ==
    LET scan  == ScanLines(content)
        st    == ScanLoop(scan.lines, 1,
                    [sections |-> <<>>, currentSection |-> Nil, contentBuffer |-> <<>>])
        final == SaveSection(st, Len(scan.lines))
    IN  IF scan.err
        THEN [fa  |-> [analyzer EXCEPT !.content = content], err |-> "scan"]
        ELSE [fa  |-> [analyzer EXCEPT !.content = content, !.sections = final],
              err |-> "ok"]

stopWords ==
    <<<<"t","h","e">>, <<"a","n","d">>, <<"o","r">>, <<"b","u","t">>, <<"i","n">>, <<"o","n">>, <<"a","t">>, <<"t","o">>, <<"f","o","r">>, <<"o","f">>,
      <<"w","i","t","h">>, <<"b","y">>>>

RECURSIVE Meaningful(_)
Meaningful(words) ==
    IF words = <<>> THEN <<>>
    ELSE IF Head(words) \notin Range(stopWords) /\ Len(Head(words)) > 2
    THEN <<Head(words)>> \o Meaningful(Tail(words))
    ELSE Meaningful(Tail(words))

extractTitleDescriptor(title) ==
    LET meaningful == Meaningful(Fields(ToLower(title)))
        first      == IF Len(meaningful) > 3 THEN SubSeq(meaningful, 1, 3) ELSE meaningful
    IN  Join(first, <<"-">>)

\* the map literal of extractTechnologyDescriptor, in declaration order
techPatterns ==
    << [pattern |-> <<<<"p","o","s","t","g","r","e","s","q","l">>, <<"p","o","s","t","g","r","e","s">>, <<"p","g">>>>, descriptor |-> <<"p","o","s","t","g","r","e","s","q","l">>],
       [pattern |-> <<<<"m","o","n","g","o","d","b">>, <<"m","o","n","g","o">>>>,              descriptor |-> <<"m","o","n","g","o","d","b">>],
       [pattern |-> <<<<"r","e","d","i","s">>>>,                          descriptor |-> <<"r","e","d","i","s">>],
       [pattern |-> <<<<"k","u","b","e","r","n","e","t","e","s">>, <<"k","8","s">>>>,             descriptor |-> <<"k","u","b","e","r","n","e","t","e","s">>],
       [pattern |-> <<<<"d","o","c","k","e","r">>>>,                         descriptor |-> <<"d","o","c","k","e","r">>],
       [pattern |-> <<<<"j","w","t">>, <<"o","a","u","t","h">>>>,                  descriptor |-> <<"o","a","u","t","h">>],
       [pattern |-> <<<<"s","t","r","i","p","e">>, <<"p","a","y","m","e","n","t">>>>,             descriptor |-> <<"p","a","y","m","e","n","t","s">>],
       [pattern |-> <<<<"w","e","b","h","o","o","k">>>>,                        descriptor |-> <<"w","e","b","h","o","o","k","s">>],
       [pattern |-> <<<<"g","r","a","p","h","q","l">>, <<"g","q","l">>>>,                descriptor |-> <<"g","r","a","p","h","q","l">>],
       [pattern |-> <<<<"r","e","s","t">>, <<"a","p","i">>>>,                   descriptor |-> <<"r","e","s","t","-","a","p","i">>] >>

\* the map literal of extractFunctionDescriptor, in declaration order
funcPatterns ==
    << [pattern |-> <<<<"a","u","t","h","e","n","t","i","c","a","t","i","o","n">>, <<"a","u","t","h">>, <<"l","o","g","i","n">>>>,   descriptor |-> <<"a","u","t","h","e","n","t","i","c","a","t","i","o","n">>],
       [pattern |-> <<<<"a","u","t","h","o","r","i","z","a","t","i","o","n">>, <<"p","e","r","m","i","s","s","i","o","n">>>>,        descriptor |-> <<"a","u","t","h","o","r","i","z","a","t","i","o","n">>],
       [pattern |-> <<<<"d","a","t","a","b","a","s","e">>, <<"s","c","h","e","m","a">>, <<"m","o","d","e","l">>>>,       descriptor |-> <<"d","a","t","a","b","a","s","e">>],
       [pattern |-> <<<<"d","e","p","l","o","y","m","e","n","t">>, <<"d","e","p","l","o","y">>, <<"p","r","o","d","u","c","t","i","o","n">>>>, descriptor |-> <<"d","e","p","l","o","y","m","e","n","t">>],
       [pattern |-> <<<<"m","o","n","i","t","o","r","i","n","g">>, <<"m","e","t","r","i","c","s">>, <<"l","o","g","g","i","n","g">>>>,  descriptor |-> <<"m","o","n","i","t","o","r","i","n","g">>],
       [pattern |-> <<<<"s","e","c","u","r","i","t","y">>, <<"e","n","c","r","y","p","t","i","o","n">>, <<"c","o","m","p","l","i","a","n","c","e">>>>, descriptor |-> <<"s","e","c","u","r","i","t","y">>],
       [pattern |-> <<<<"t","e","s","t","i","n","g">>, <<"t","e","s","t">>, <<"s","p","e","c">>>>,           descriptor |-> <<"t","e","s","t","i","n","g">>],
       [pattern |-> <<<<"c","o","n","f","i","g","u","r","a","t","i","o","n">>, <<"c","o","n","f","i","g">>, <<"s","e","t","u","p">>>>,  descriptor |-> <<"c","o","n","f","i","g","u","r","a","t","i","o","n">>] >>

\* The order of one "for pattern, descriptor := range m" over a Go map.  Go
\* leaves the order unspecified and randomises where each iteration starts, so
\* every entry can be the first one visited: the order that starts at entry
\* start of the literal and wraps around.
MapRange(m, start) == [i \in 1..Len(m) |-> ((start + i - 2) % Len(m)) + 1]

\* the entries of m whose pattern matches content
Matching(m, content) == {i \in 1..Len(m) : MatchString(m[i].pattern, content)}

\* The starts that give the different outcomes of a range-and-return-first-match
\* loop over m: one per matching entry (any other start reaches one of these
\* entries first), and one start when nothing matches.
MapStarts(m, content) ==
    IF Matching(m, content) = {} THEN {1} ELSE Matching(m, content)

\* "for ... range m { if matched { return descriptor } }; return empty" in the order
\* MapRange(m, start)
FirstMatch(m, content, start) ==
    LET order == MapRange(m, start)
        hits  == {k \in 1..Len(m) : MatchString(m[order[k]].pattern, content)}
    IN  IF hits = {} THEN <<>> ELSE m[order[Min(hits)]].descriptor

extractTechnologyDescriptor(content, start) == FirstMatch(techPatterns, content, start)

extractFunctionDescriptor(content, start) == FirstMatch(funcPatterns, content, start)

\* descriptors = append(descriptors, d) when d != ""
AppendNonEmpty(descriptors, d) == IF d # <<>> THEN Append(descriptors, d) ELSE descriptors

\* generateDescriptiveFileName, with the starts of its two map iterations
generateDescriptiveFileName(sec, techStart, funcStart) ==
    LET content     == ToLower(sec.Title \o <<" ">> \o sec.Content)
        d1          == AppendNonEmpty(<<>>, extractTitleDescriptor(sec.Title))
        d2          == AppendNonEmpty(d1, extractTechnologyDescriptor(content, techStart))
        descriptors == AppendNonEmpty(d2, extractFunctionDescriptor(content, funcStart))
        sanitized   == SanitizeFileName(Join(descriptors, <<"-">>))
        cut         == IF Len(sanitized) > MaxDescriptiveLength
                       THEN SubSeq(sanitized, 1, MaxDescriptiveLength) ELSE sanitized
        fileName    == IF cut = <<>> THEN <<"g","e","n","e","r","a","l","-","c","o","n","t","e","x","t">> ELSE cut
    IN  fileName \o <<".","m","d">>

\* every file name generateDescriptiveFileName can return for sec
FileNamesOf(sec) ==
    LET content == ToLower(sec.Title \o <<" ">> \o sec.Content)
    IN  {generateDescriptiveFileName(sec, ts, fs) :
            ts \in MapStarts(techPatterns, content), fs \in MapStarts(funcPatterns, content)}

termPatterns ==
    <<<<"a","p","i">>, <<"e","n","d","p","o","i","n","t">>, <<"d","a","t","a","b","a","s","e">>, <<"s","c","h","e","m","a">>, <<"a","u","t","h","e","n","t","i","c","a","t","i","o","n">>, <<"a","u","t","h","o","r","i","z","a","t","i","o","n">>,
      <<"s","e","c","u","r","i","t","y">>, <<"d","e","p","l","o","y","m","e","n","t">>, <<"m","o","n","i","t","o","r","i","n","g">>, <<"t","e","s","t","i","n","g">>, <<"c","o","n","f","i","g","u","r","a","t","i","o","n">>,
      <<"j","w","t">>, <<"o","a","u","t","h">>, <<"p","o","s","t","g","r","e","s","q","l">>, <<"m","o","n","g","o","d","b">>, <<"r","e","d","i","s">>, <<"k","u","b","e","r","n","e","t","e","s">>, <<"d","o","c","k","e","r">>>>

RECURSIVE FoundTerms(_, _)
FoundTerms(content, i) ==
    IF i > Len(termPatterns) THEN <<>>
    ELSE IF Contains(content, termPatterns[i])
    THEN <<termPatterns[i]>> \o FoundTerms(content, i + 1)
    ELSE FoundTerms(content, i + 1)

\* a faulty extraction: the body is searched as it is written
extractKeyTermsAsWritten(sec) == FoundTerms(sec.Content, 1)

extractKeyTerms(sec) == FoundTerms(ToLower(sec.Content), 1)

\* strings.Split(content, ".")[0]
FirstSentence(content) ==
    LET dot == Index(content, <<".">>)
    IN  IF dot = 0 THEN content ELSE SubSeq(content, 1, dot - 1)

\* a faulty summary: the first sentence is measured after it is trimmed
generateContentSummaryTrimmedFirst(sec) ==
    LET content == sec.Content
        summary == TrimSpace(FirstSentence(content))
    IN  IF Len(summary) > 10
        THEN IF Len(summary) > 100 THEN SubSeq(summary, 1, 100) \o <<".",".",".">> ELSE summary
        ELSE IF Len(content) > 100 THEN SubSeq(content, 1, 100) \o <<".",".",".">>
        ELSE content

generateContentSummary(sec) ==
    LET content == sec.Content
        summary == TrimSpace(FirstSentence(content))
    IN  IF Len(FirstSentence(content)) > 10
        THEN IF Len(summary) > 100 THEN SubSeq(summary, 1, 100) \o <<".",".",".">> ELSE summary
        ELSE IF Len(content) > 100 THEN SubSeq(content, 1, 100) \o <<".",".",".">>
        ELSE content

\* a faulty estimate: the token count rounded up
NewContextFileRoundedUp(sec, fileName) ==
    [FileName   |-> fileName,
     Content    |-> sec.Content,
     WordCount  |-> sec.WordCount,
     TokenCount |-> (Len(sec.Content) + TokenEstimationRatio - 1) \div TokenEstimationRatio,
     Summary    |-> generateContentSummary(sec),
     KeyTerms   |-> extractKeyTerms(sec)]

\* the ContextFile generateContextFiles builds for sec once its name is known
NewContextFile(sec, fileName) ==
    [FileName   |-> fileName,
     Content    |-> sec.Content,
     WordCount  |-> sec.WordCount,
     TokenCount |-> Len(sec.Content) \div TokenEstimationRatio,
     Summary    |-> generateContentSummary(sec),
     KeyTerms   |-> extractKeyTerms(sec)]

\* a faulty generation: a document without sections gives one default file
generateContextFilesOrDefault(sections) ==
    IF sections = <<>>
    THEN {<<[FileName |-> <<"g","e","n","e","r","a","l","-","c","o","n","t","e","x","t",".","m","d">>, Content |-> <<>>, WordCount |-> 0,
             TokenCount |-> 0, Summary |-> <<>>, KeyTerms |-> <<>>]>>}
    ELSE {}

\* generateContextFiles: every value fa.contextFiles can get from the sections,
\* one ContextFile per section, in order
RECURSIVE generateContextFiles(_)
generateContextFiles(sections) ==
    IF sections = <<>> THEN {<<>>}
    ELSE {<<NewContextFile(Head(sections), n)>> \o rest :
             n \in FileNamesOf(Head(sections)),
             rest \in generateContextFiles(Tail(sections))}

\* NewFileAnalyzer
NewFileAnalyzer == [content |-> <<>>, sections |-> <<>>, contextFiles |-> <<>>]


(************************ internal/config ***********************************)
SupportedTemplates == <<"generic", "claude", "cursor", "copilot", "gemini">>

\* TemplateConfigs; SubDir is a list of path elements, empty for ""
TemplateConfigs ==
    [t \in Range(SupportedTemplates) |->
        CASE t = "generic" -> [MainFile |-> <<"t","e","m","p","l","a","t","e",".","m","d">>, SubDir |-> <<>>]
          [] t = "claude"  -> [MainFile |-> <<"C","L","A","U","D","E",".","m","d">>, SubDir |-> <<>>]
          [] t = "cursor"  -> [MainFile |-> <<"A","G","E","N","T","S",".","m","d">>, SubDir |-> <<>>]
          [] t = "copilot" -> [MainFile |-> <<"c","o","p","i","l","o","t","-","i","n","s","t","r","u","c","t","i","o","n","s",".","m","d">>, SubDir |-> <<<<".","g","i","t","h","u","b">>>>]
          [] t = "gemini"  -> [MainFile |-> <<"G","E","M","I","N","I",".","m","d">>, SubDir |-> <<>>]]

\* A path is a directory (its elements below the working directory, <<>> for
\* ".") and a file name; filepath.Join of directories is concatenation.
PathOf(dir, name) == [dir |-> dir, name |-> name]

\* ValidateTemplate: TRUE when it returns nil
ValidateTemplate(template) == template \in Range(SupportedTemplates)

\* GetMainFileForTemplate for a supported template
GetMainFileForTemplate(template, projectRoot) ==
    PathOf(projectRoot \o TemplateConfigs[template].SubDir, TemplateConfigs[template].MainFile)

\* DefaultConfig
DefaultConfig(projectRoot) ==
    [ContextDir  |-> projectRoot \o <<<<"c","o","n","t","e","x","t">>>>,
     Template    |-> "generic",
     MainFile    |-> PathOf(projectRoot, <<"t","e","m","p","l","a","t","e",".","m","d">>),
     ProjectRoot |-> projectRoot]

\* a faulty update: the main file is put into the project root, whatever the
\* template's subdirectory
UpdateForTemplateNoSubDir(pc0, template) ==
    IF ~ValidateTemplate(template)
    THEN [config |-> pc0, ok |-> FALSE, error |-> "unsupported template"]
    ELSE [config |-> [pc0 EXCEPT !.Template = template,
                                 !.MainFile = PathOf(pc0.ProjectRoot,
                                                     TemplateConfigs[template].MainFile)],
          ok     |-> TRUE,
          error  |-> ""]

\* UpdateForTemplate: the config after it, whether it returned nil, and the
\* ErrUnsupportedTemplate text its error starts with
UpdateForTemplate(pc0, template) ==
    IF ~ValidateTemplate(template)
    THEN [config |-> pc0, ok |-> FALSE, error |-> "unsupported template"]
    ELSE [config |-> [pc0 EXCEPT !.Template = template,
                                 !.MainFile = GetMainFileForTemplate(template, pc0.ProjectRoot)],
          ok     |-> TRUE,
          error  |-> ""]

(************************ package os ****************************************)
\* a faulty write: a file that exists is left as it is
WriteFileIfAbsent(fs, path, content, now) ==
    [q \in DOMAIN fs \cup {path} |->
        IF q \in DOMAIN fs THEN fs[q] ELSE [content |-> content, mtime |-> now]]

\* os.WriteFile / os.Create and write: the file holds content, stamped now
WriteFile(fs, path, content, now) ==
    [q \in DOMAIN fs \cup {path} |->
        IF q = path THEN [content |-> content, mtime |-> now] ELSE fs[q]]

\* os.Remove
RemoveFile(fs, path) == [q \in DOMAIN fs \ {path} |-> fs[q]]

\* os.MkdirAll: dir and every directory above it exist
MkdirAll(ds, dir) == ds \cup {SubSeq(dir, 1, n) : n \in 0..Len(dir)}

\* the names os.ReadDir(dir) lists: the files and the directories right in dir
DirFiles(fs, dir) == {q.name : q \in {x \in DOMAIN fs : x.dir = dir}}

SubDirs(ds, dir) == {d[Len(d)] : d \in {x \in ds : Len(x) = Len(dir) + 1 /\ SubSeq(x, 1, Len(dir)) = dir}}

(************************ internal/template (embedded templates) ************)
\* the two placeholder literals of UpdateTemplateWithChapters, each one atom
\* (the back quotes of the literals are written <bq>, as in every text here)
placeholders ==
    << "(Chapter files will be listed here when you run <bq>contindex update<bq> or <bq>contindex convert<bq>)",
       "(Context files will be listed here when you run <bq>contindex update<bq> or <bq>contindex convert<bq>)" >>

\* A rendered template: the template's own text around one placeholder.
TemplateText(template, placeholder) ==
    <<template, "<template text before the chapter list>", "\n",
      placeholder, "\n", "<template text after the chapter list>">>

\* what templates/*/template.md can hold: every template carries the same one
\* of the two placeholders
EmbeddedTemplates ==
    {[t \in Range(SupportedTemplates) |-> TemplateText(t, placeholders[p])] : p \in 1..2}

\* a faulty rendering: a main file that exists is kept as it is
ApplyTemplateKeepsExisting(fs, ds, tfs, projectConfig, now) ==
    [files |-> IF projectConfig.MainFile \in DOMAIN fs THEN fs
               ELSE WriteFile(fs, projectConfig.MainFile, tfs[projectConfig.Template], now),
     dirs  |-> MkdirAll(ds, projectConfig.MainFile.dir)]

\* Manager.ApplyTemplate: the main file is created anew from the template
ApplyTemplate(fs, ds, tfs, projectConfig, now) ==
    [files |-> WriteFile(fs, projectConfig.MainFile, tfs[projectConfig.Template], now),
     dirs  |-> MkdirAll(ds, projectConfig.MainFile.dir)]

(************************ cmd: the chapter list and the index ***************)
Digits == <<"0","1","2","3","4","5","6","7","8","9">>

\* fmt's %d of a number n >= 0
RECURSIVE Itoa(_)
Itoa(n) == IF n < 10 THEN <<Digits[n + 1]>> ELSE Itoa(n \div 10) \o <<Digits[(n % 10) + 1]>>

\* a faulty entry: numbered from 0
ChapterEntryFromZero(n, fileName, contextDirName) ==
    Itoa(n - 1) \o <<"."," ","*","*">> \o TrimSuffix(fileName, <<".","m","d">>) \o <<"*","*"," ","-"," ","<bq>">>
        \o contextDirName \o <<"/">> \o fileName \o <<"<bq>","\n">>

\* fmt.Sprintf("%d. **%s** - <bq>%s/%s<bq>\n", i+1, descriptiveName, contextDirName,
\* file.FileName)
ChapterEntry(n, fileName, contextDirName) ==
    Itoa(n) \o <<"."," ","*","*">> \o TrimSuffix(fileName, <<".","m","d">>) \o <<"*","*"," ","-"," ","<bq>">>
        \o contextDirName \o <<"/">> \o fileName \o <<"<bq>","\n">>

\* a faulty list: the loop stops after the first chapter
ChapterListFirstOnly(contextFiles, i, contextDirName) ==
    IF i > Len(contextFiles) \/ i > 1 THEN <<>>
    ELSE <<"1">> \o <<"."," ","*","*">> \o TrimSuffix(contextFiles[i].FileName, <<".","m","d">>) \o <<"*","*"," ","-"," ","<bq>">>
             \o contextDirName \o <<"/">> \o contextFiles[i].FileName \o <<"<bq>","\n">>

\* the chapterList strings.Builder after the loop over contextFiles[i..]
RECURSIVE ChapterList(_, _, _)
ChapterList(contextFiles, i, contextDirName) ==
    IF i > Len(contextFiles) THEN <<>>
    ELSE ChapterEntry(i, contextFiles[i].FileName, contextDirName)
             \o ChapterList(contextFiles, i + 1, contextDirName)

\* a faulty substitution: a text without placeholder gets the list appended
ReplaceOrAppend(content, list, i) ==
    IF \A k \in 1..Len(placeholders) : placeholders[k] \notin Range(content)
    THEN content \o list
    ELSE ReplaceAll(ReplaceAll(content, <<placeholders[1]>>, list), <<placeholders[2]>>, list)

\* the loop over placeholders: ReplaceAll of each, one after the other
RECURSIVE ReplacePlaceholders(_, _, _)
ReplacePlaceholders(content, list, i) ==
    IF i > Len(placeholders) THEN content
    ELSE ReplacePlaceholders(ReplaceAll(content, <<placeholders[i]>>, list), list, i + 1)

\* UpdateTemplateWithChapters: the files after it, the list it built, and
\* whether it returned nil (it fails when mainFile cannot be read)
UpdateTemplateWithChapters(fs, mainFile, contextFiles, contextDirName, now) ==
    IF mainFile \notin DOMAIN fs
    THEN [files |-> fs, chapterList |-> <<>>, ok |-> FALSE]
    ELSE LET list    == ChapterList(contextFiles, 1, contextDirName)
             updated == ReplacePlaceholders(fs[mainFile].content, TrimSpace(list), 1)
         IN  [files |-> WriteFile(fs, mainFile, updated, now), chapterList |-> list, ok |-> TRUE]

(************************ cmd: convert **************************************)
NoCmd == [name |-> "none"]

\* how a command ended: "ok" (nil), "error" with the error, or still "running"
NoResult == [status |-> "none", error |-> ""]

Running == [status |-> "running", error |-> ""]

Ok == [status |-> "ok", error |-> ""]

Failed(error) == [status |-> "error", error |-> error]

\* filepath.Ext: from the last "." on, empty when there is none
Ext(name) ==
    LET dots == {i \in 1..Len(name) : name[i] = "."}
    IN  IF dots = {} THEN <<>>
        ELSE SubSeq(name, CHOOSE i \in dots : \A j \in dots : j <= i, Len(name))

\* filepath.Clean of a directory flag that names a directory right below the
\* working directory: leading "./" and trailing "/" go
RECURSIVE Clean(_)
Clean(name) ==
    IF HasPrefix(name, <<".","/">>) THEN Clean(SubSeq(name, 3, Len(name)))
    ELSE IF Len(name) > 1 /\ HasSuffix(name, <<"/">>) THEN Clean(SubSeq(name, 1, Len(name) - 1))
    ELSE name

\* the directory os.Stat, os.MkdirAll and filepath.Join reach through such a flag
DirOf(name) == <<Clean(name)>>

\* checkDirectoryConflicts: the error it returns, "" for nil
checkDirectoryConflicts(fs, ds, c) ==
    IF /\ DirOf(c.contextDir) \in ds
       /\ DirFiles(fs, DirOf(c.contextDir)) \cup SubDirs(ds, DirOf(c.contextDir)) # {}
       /\ ~c.force
    THEN "context directory already exists and contains files"
    ELSE IF ~c.noBackup /\ c.contextDir = c.backupDir
    THEN "context directory and backup directory cannot be the same"
    ELSE ""

\* ValidateMarkdownFile of a file in the working directory: TRUE when it
\* returns nil (the files here are small texts)
ValidateMarkdownFile(fs, name) ==
    /\ PathOf(<<>>, name) \in DOMAIN fs
    /\ ToLower(Ext(name)) \in {<<".","m","d">>, <<".","m","a","r","k","d","o","w","n">>}

\* validateConvertInputs: the error it returns, "" for nil
validateConvertInputs(fs, ds, c) ==
    IF ~ValidateMarkdownFile(fs, c.sourceFile) THEN "invalid source file"
    ELSE IF ~ValidateTemplate(c.templateType) THEN "unsupported template type"
    ELSE checkDirectoryConflicts(fs, ds, c)

\* no path: createBackup has not chosen its backupFile
NoPath == [dir |-> <<>>, name |-> <<>>]

\* ValidateDirectoryWritable of a directory that exists: the test file is
\* created and removed again
WriteTest(fs, dir) == RemoveFile(fs, PathOf(dir, <<".","c","o","n","t","i","n","d","e","x","_","w","r","i","t","e","_","t","e","s","t">>))

\* createBackup: the path the backup is written to
BackupFile(fs, c) ==
    LET safeName == SanitizeFileName(c.sourceFile)
        content  == fs[PathOf(<<>>, c.sourceFile)].content
        ext      == Ext(safeName)
    IN  IF PathOf(DirOf(c.backupDir), safeName) \in DOMAIN fs
        THEN PathOf(DirOf(c.backupDir),
                    TrimSuffix(safeName, ext) \o <<"_","b","a","c","k","u","p","_">> \o Itoa(Len(content)) \o ext)
        ELSE PathOf(DirOf(c.backupDir), safeName)

\* writeContextFiles: what is written for one ContextFile
ChapterContent(file) ==
    <<"#"," ">> \o TrimSuffix(file.FileName, <<".","m","d">>) \o <<"\n","\n">> \o file.Content \o <<"\n">>

(************************ source documents **********************************)
\* the lines a source document is made of
Lines ==
    { <<"#","#"," ","A","u","t","h"," ","F","l","o","w">>,
      <<"#"," ","T","i","t","l","e">>,
      <<" "," ","#","#","#"," ","N","o","t","e","s"," ">>,
      <<>>,
      <<" ","o","n","e"," ","t","w","o"," ","t","h","r","e","e"," ","f","o","u","r"," ","f","i","v","e"," ","s","i","x"," ","s","e","v","e","n"," ","e","i","g","h","t"," ","n","i","n","e"," ","t","e","n","\r">>,
      <<"u","n","o"," ","d","o","s"," ","t","r","e","s"," ","c","u","a","t","r","o"," ","c","i","n","c","o">>,
      <<LongRun>> }

RECURSIVE Documents(_)
Documents(n) ==
    IF n = 0 THEN {<<>>}
    ELSE Documents(n - 1) \cup
         {d \o l \o <<"\n">> : d \in Documents(n - 1), l \in Lines}

\* a specification of the analyzer alone: no file system, no command
NoFileSystem ==
    /\ files = <<>>
    /\ dirs = {}
    /\ clock = 0
    /\ templateFS = <<>>
    /\ cmd = NoCmd
    /\ result = NoResult
    /\ steps = 0
    /\ synced = <<>>

(************************ SpecParse: the analyzer on a document *************)
InitParse ==
    /\ fa \in {[NewFileAnalyzer EXCEPT !.content = d] : d \in Documents(MaxLines)}
    /\ parseErr = "none"
    /\ section = Nil
    /\ fileNames = <<>>
    /\ pc = "parse"
    /\ NoFileSystem

ParseSourceFile ==
    /\ pc = "parse"
    /\ LET r == parseSourceFile(fa, fa.content)
       IN  /\ fa' = r.fa
           /\ parseErr' = r.err
           /\ pc' = IF r.err = "ok" THEN "generate" ELSE "failed"
    /\ UNCHANGED <<section, fileNames>>
    /\ UNCHANGED fsVars

GenerateContextFiles ==
    /\ pc = "generate"
    /\ \E cfs \in generateContextFiles(fa.sections) :
           fa' = [fa EXCEPT !.contextFiles = cfs]
    /\ pc' = "analyzed"
    /\ UNCHANGED <<parseErr, section, fileNames>>
    /\ UNCHANGED fsVars

NextParse == ParseSourceFile \/ GenerateContextFiles

SpecParse == InitParse /\ [][NextParse]_vars

(************************ Spec: convert, update and the user's edits ********)
TenWords == <<"a"," ","b"," ","c"," ","d"," ","e"," ","f"," ","g"," ","h"," ","i"," ","j">>

TenMore == <<"k"," ","l"," ","m"," ","n"," ","o"," ","p"," ","q"," ","r"," ","s"," ","t">>

\* the documents a source file holds: two sections; no "##" header at all;
\* two sections with the same title
SourceDocuments ==
    { <<"#","#"," ","A","u","t","h"," ","F","l","o","w","\n">> \o TenWords \o <<"\n","#","#","#"," ","D","a","t","a"," ","M","o","d","e","l","\n","\n">> \o TenMore \o <<"\n">>,
      <<"#"," ","T","i","t","l","e","\n">> \o TenWords \o <<"\n">>,
      <<"#","#"," ","N","o","t","e","s","\n">> \o TenWords \o <<"\n","#","#"," ","N","o","t","e","s","\n">> \o TenMore \o <<"\n">> }

\* the documents of a convert run alone: also one whose only section has fewer
\* than MinWordCountForFile words
ConvertDocuments ==
    SourceDocuments \cup {<<"#","#"," ","S","h","o","r","t","\n">> \o <<"a"," ","b"," ","c","\n">>}

\* --source
SourceFiles == {<<"C","L","A","U","D","E",".","m","d">>, <<"n","o","t","e","s",".","m","d">>}

\* --template of convert and of update
CommandTemplates == {"claude"}

\* --context-dir and --backup-dir
ContextDirs == {<<"c","o","n","t","e","x","t">>}

BackupDirs == {<<"b","a","c","k","u","p">>}

\* --path of update: the working directory, or a project below it
ProjectPaths == {<<>>, <<<<"p","r","o","j">>>>}

\* the names of the files a user puts into a context directory
UserNames == {<<"e","x","t","r","a",".","m","d">>}

Init ==
    /\ \E src \in SourceFiles, d \in SourceDocuments :
           files = WriteFile(<<>>, PathOf(<<>>, src), d, 0)
    /\ dirs = {<<>>, <<<<"p","r","o","j">>>>}
    /\ clock = 0
    /\ templateFS \in EmbeddedTemplates
    /\ cmd = NoCmd
    /\ result = NoResult
    /\ steps = 0
    /\ synced = <<>>
    /\ fa = NewFileAnalyzer
    /\ parseErr = "none"
    /\ section = Nil
    /\ fileNames = <<>>
    /\ pc = "idle"

analyzerVars == <<section, fileNames, synced, templateFS>>

\* a faulty start: the backup is made on a dry run as well
AfterValidateBackupFirst(c) == IF ~c.noBackup THEN "backup" ELSE "analyze"

\* runConvert after validateConvertInputs returned nil: createBackup unless
\* this is a dry run or --no-backup is given
AfterValidate(c) == IF ~c.dryRun /\ ~c.noBackup THEN "backup" ELSE "analyze"

\* runConvert up to createBackup: validateConvertInputs on the flags given,
\* --context-dir drawn from contextDirs and --backup-dir from backupDirs.
\* A source file that an earlier run has turned into the index is not converted
\* again here.
ConvertStarts(contextDirs, backupDirs) ==
    /\ pc = "idle"
    /\ steps < MaxSteps
    /\ \E src \in SourceFiles, t \in CommandTemplates, cdir \in contextDirs,
          bdir \in backupDirs, nb \in BOOLEAN, f \in BOOLEAN, dry \in BOOLEAN :
          LET c   == [name |-> "convert", sourceFile |-> src, templateType |-> t,
                      contextDir |-> cdir, backupDir |-> bdir, noBackup |-> nb,
                      force |-> f, dryRun |-> dry, contextFiles |-> <<>>, written |-> 0,
                      backupFile |-> NoPath, content |-> <<>>]
              err == validateConvertInputs(files, dirs, c)
          IN  /\ PathOf(<<>>, src) \in DOMAIN files =>
                     files[PathOf(<<>>, src)].content \in ConvertDocuments
              /\ cmd' = c
              /\ result' = IF err # "" THEN Failed(err) ELSE Running
              /\ pc' = IF err # "" THEN "idle" ELSE AfterValidate(c)
    /\ steps' = steps + 1
    /\ UNCHANGED <<fa, parseErr, files, dirs, clock>>
    /\ UNCHANGED analyzerVars

StartConvert == ConvertStarts(ContextDirs, BackupDirs)

\* createBackup: ValidateDirectoryWritable makes the backup directory or tests
\* it, then the content read from the source is written to backupFile
CreateBackup ==
    /\ pc = "backup"
    /\ LET content    == files[PathOf(<<>>, cmd.sourceFile)].content
           backupFile == BackupFile(files, cmd)
       IN  /\ files' = WriteFile(WriteTest(files, DirOf(cmd.backupDir)), backupFile, content, clock)
           /\ cmd' = [cmd EXCEPT !.backupFile = backupFile, !.content = content]
    /\ dirs' = MkdirAll(dirs, DirOf(cmd.backupDir))
    /\ pc' = "analyze"
    /\ UNCHANGED <<fa, parseErr, clock, result, steps>>
    /\ UNCHANGED analyzerVars

\* analyzeAndGenerateFiles, and previewConversion on a dry run; the analyzer
\* is local to the call
AnalyzeAndGenerateFiles ==
    /\ pc = "analyze"
    /\ LET r == parseSourceFile(NewFileAnalyzer, files[PathOf(<<>>, cmd.sourceFile)].content)
       IN  IF r.err # "ok"
           THEN /\ cmd' = cmd
                /\ result' = Failed("failed to analyze and generate files")
                /\ pc' = "idle"
           ELSE \E cfs \in generateContextFiles(r.fa.sections) :
                /\ cmd' = [cmd EXCEPT !.contextFiles = cfs]
                /\ result' = IF cfs = <<>>
                             THEN Failed("no content sections found in source file")
                             ELSE IF cmd.dryRun THEN Ok ELSE Running
                /\ pc' = IF cfs = <<>> \/ cmd.dryRun THEN "idle" ELSE "execute"
    /\ UNCHANGED <<fa, parseErr, files, dirs, clock, steps>>
    /\ UNCHANGED analyzerVars

\* executeConversion: os.MkdirAll(contextDir)
MkdirContextDir ==
    /\ pc = "execute"
    /\ dirs' = MkdirAll(dirs, DirOf(cmd.contextDir))
    /\ pc' = "write"
    /\ UNCHANGED <<fa, parseErr, files, clock, cmd, result, steps>>
    /\ UNCHANGED analyzerVars

\* writeContextFiles: the next file is written
WriteContextFile ==
    /\ pc = "write"
    /\ LET file == cmd.contextFiles[cmd.written + 1]
       IN  files' = WriteFile(files, PathOf(DirOf(cmd.contextDir), file.FileName),
                              ChapterContent(file), clock)
    /\ cmd' = [cmd EXCEPT !.written = @ + 1]
    /\ pc' = IF cmd.written + 1 = Len(cmd.contextFiles) THEN "index" ELSE "write"
    /\ UNCHANGED <<fa, parseErr, dirs, clock, result, steps>>
    /\ UNCHANGED analyzerVars

\* a faulty failure: the chapter files written so far are removed again
WriteContextFileFailsAndCleansUp ==
    /\ pc = "write"
    /\ result' = Failed("failed to write context files")
    /\ pc' = "idle"
    /\ files' = [q \in {p \in DOMAIN files :
                           \A j \in 1..cmd.written :
                               p # PathOf(DirOf(cmd.contextDir), cmd.contextFiles[j].FileName)}
                    |-> files[q]]
    /\ UNCHANGED <<fa, parseErr, dirs, clock, cmd, steps>>
    /\ UNCHANGED analyzerVars

\* writeContextFiles: os.WriteFile of the next file fails, convert returns the error
WriteContextFileFails ==
    /\ pc = "write"
    /\ result' = Failed("failed to write context files")
    /\ pc' = "idle"
    /\ UNCHANGED <<fa, parseErr, files, dirs, clock, cmd, steps>>
    /\ UNCHANGED analyzerVars

\* generateIndexFile: the index is rendered from the template, then the chapter
\* list is put in; convert returns nil
GenerateIndexFile ==
    /\ pc = "index"
    /\ LET pcfg     == UpdateForTemplate(
                           [DefaultConfig(<<>>) EXCEPT !.ContextDir = DirOf(cmd.contextDir)],
                           cmd.templateType).config
           rendered == ApplyTemplate(files, dirs, templateFS, pcfg, clock)
           updated  == UpdateTemplateWithChapters(rendered.files, pcfg.MainFile,
                                                  cmd.contextFiles, cmd.contextDir, clock)
       IN  /\ files' = updated.files
           /\ dirs' = rendered.dirs
    /\ result' = Ok
    /\ pc' = "idle"
    /\ UNCHANGED <<fa, parseErr, clock, cmd, steps>>
    /\ UNCHANGED analyzerVars

(************************ SpecConvert: convert runs alone *******************)
\* --context-dir and --backup-dir, two of them spellings of one directory
ConvertContextDirs == {<<"c","o","n","t","e","x","t">>, <<"b","a","c","k","u","p">>}

ConvertBackupDirs == {<<"b","a","c","k","u","p">>, <<".","/","b","a","c","k","u","p">>}

InitConvert ==
    /\ \E src \in SourceFiles, d \in ConvertDocuments :
           files = WriteFile(<<>>, PathOf(<<>>, src), d, 0)
    /\ dirs = {<<>>}
    /\ clock = 0
    /\ templateFS \in EmbeddedTemplates
    /\ cmd = NoCmd
    /\ result = NoResult
    /\ steps = 0
    /\ synced = <<>>
    /\ fa = NewFileAnalyzer
    /\ parseErr = "none"
    /\ section = Nil
    /\ fileNames = <<>>
    /\ pc = "idle"

StartConvertAnyDir == ConvertStarts(ConvertContextDirs, ConvertBackupDirs)

NextConvert ==
    \/ StartConvertAnyDir
    \/ CreateBackup
    \/ AnalyzeAndGenerateFiles
    \/ MkdirContextDir
    \/ WriteContextFile
    \/ WriteContextFileFails
    \/ GenerateIndexFile

SpecConvert == InitConvert /\ [][NextConvert]_vars

(************************ cmd: update ***************************************)
\* the order of two bytes
ByteOrder ==
    <<" ","!","\"","#","$","%","&","'","(">> \o placeholders \o <<")","*","+",",","-",".","/","0","1","2","3","4","5","6","7","8","9",":",";","<","=",">","?","@">> \o UpperLetters
        \o <<"[","\\","]","^","_">> \o <<"<bq>">> \o LowerLetters \o <<"<C3>", "<A9>">>

Rank(a) == CHOOSE i \in 1..Len(ByteOrder) : ByteOrder[i] = a

\* a < b as file names: os.ReadDir lists a directory sorted by file name
NameLess(a, b) ==
    \E k \in 1..(Len(a) + 1) :
        /\ k <= Len(b)
        /\ SubSeq(a, 1, k - 1) = SubSeq(b, 1, k - 1)
        /\ (k = Len(a) + 1 \/ Rank(a[k]) < Rank(b[k]))

RECURSIVE SortNames(_)
SortNames(names) ==
    IF names = {} THEN <<>>
    ELSE LET first == CHOOSE n \in names : \A m \in names \ {n} : NameLess(n, m)
         IN  <<first>> \o SortNames(names \ {first})

\* a faulty scan: every file is listed, whatever its name ends with
scanContextDirectoryAllFiles(fs, contextDir) ==
    LET names == SortNames(DirFiles(fs, contextDir))
    IN  [i \in 1..Len(names) |-> [FileName |-> names[i]]]

\* scanContextDirectory: a ContextFile with only its FileName for every entry
\* that is a file named *.md, in the order os.ReadDir lists them
scanContextDirectory(fs, contextDir) ==
    LET names == SortNames({n \in DirFiles(fs, contextDir) : HasSuffix(n, <<".","m","d">>)})
    IN  [i \in 1..Len(names) |-> [FileName |-> names[i]]]

\* a faulty test: a chapter as old as the index counts as newer
checkIfUpdateNeededNotOlder(fs, indexFile, chapterFiles) ==
    IF indexFile \notin DOMAIN fs THEN TRUE
    ELSE \E i \in 1..Len(chapterFiles) :
            LET filePath == PathOf(<<<<"c","o","n","t","e","x","t">>>>, chapterFiles[i].FileName)
            IN  /\ filePath \in DOMAIN fs
                /\ fs[filePath].mtime >= fs[indexFile].mtime

\* checkIfUpdateNeeded: each chapter is looked up as filepath.Join("context",
\* file.FileName), a path below the working directory
checkIfUpdateNeeded(fs, indexFile, chapterFiles) ==
    IF indexFile \notin DOMAIN fs THEN TRUE
    ELSE \E i \in 1..Len(chapterFiles) :
            LET filePath == PathOf(<<<<"c","o","n","t","e","x","t">>>>, chapterFiles[i].FileName)
            IN  /\ filePath \in DOMAIN fs
                /\ fs[filePath].mtime > fs[indexFile].mtime

\* runUpdate
RunUpdate ==
    /\ pc = "idle"
    /\ steps < MaxSteps
    /\ \E projectPath \in ProjectPaths, t \in CommandTemplates, f \in BOOLEAN :
          LET contextDir   == projectPath \o <<<<"c","o","n","t","e","x","t">>>>
              chapterFiles == scanContextDirectory(files, contextDir)
              indexFile    == GetMainFileForTemplate(t, projectPath)
              pcfg         == UpdateForTemplate(DefaultConfig(projectPath), t).config
              rendered     == ApplyTemplate(files, dirs, templateFS, pcfg, clock)
              updated      == UpdateTemplateWithChapters(rendered.files, indexFile,
                                                         chapterFiles, <<"c","o","n","t","e","x","t">>, clock)
              c            == [name |-> "update", projectPath |-> projectPath,
                               updateTemplate |-> t, forceUpdate |-> f,
                               contextFiles |-> chapterFiles]
          IN  /\ cmd' = c
              /\ IF contextDir \notin dirs
                 THEN /\ result' = Failed("context directory not found")
                      /\ UNCHANGED <<files, dirs>>
                 ELSE IF chapterFiles = <<>>
                 THEN /\ result' = [status |-> "no chapter files", error |-> ""]
                      /\ UNCHANGED <<files, dirs>>
                 ELSE IF ~f /\ ~checkIfUpdateNeeded(files, indexFile, chapterFiles)
                 THEN /\ result' = [status |-> "up to date", error |-> ""]
                      /\ UNCHANGED <<files, dirs>>
                 ELSE /\ result' = Ok
                      /\ files' = updated.files
                      /\ dirs' = rendered.dirs
    /\ steps' = steps + 1
    /\ UNCHANGED <<fa, parseErr, clock, pc>>
    /\ UNCHANGED analyzerVars

(************************ the user *******************************************)
ChapterDirs == {p \o <<<<"c","o","n","t","e","x","t">>>> : p \in ProjectPaths}

\* a chapter file is added to a context directory, or one there is modified,
\* at a time later than every write before it
UserWritesChapter ==
    /\ pc = "idle"
    /\ clock < MaxClock
    /\ \E dir \in ChapterDirs :
       \E name \in UserNames \cup DirFiles(files, dir) :
          /\ files' = WriteFile(files, PathOf(dir, name), <<"e","d","i","t","e","d">>, clock + 1)
          /\ dirs' = MkdirAll(dirs, dir)
    /\ clock' = clock + 1
    /\ cmd' = NoCmd
    /\ result' = NoResult
    /\ UNCHANGED <<fa, parseErr, steps, pc>>
    /\ UNCHANGED analyzerVars

\* a chapter file is removed from a context directory
UserRemovesChapter ==
    /\ pc = "idle"
    /\ \E dir \in ChapterDirs :
       \E name \in DirFiles(files, dir) :
          files' = RemoveFile(files, PathOf(dir, name))
    /\ cmd' = NoCmd
    /\ result' = NoResult
    /\ UNCHANGED <<fa, parseErr, dirs, clock, steps, pc>>
    /\ UNCHANGED analyzerVars

Next ==
    \/ StartConvert
    \/ CreateBackup
    \/ AnalyzeAndGenerateFiles
    \/ MkdirContextDir
    \/ WriteContextFile
    \/ WriteContextFileFails
    \/ GenerateIndexFile
    \/ RunUpdate
    \/ UserWritesChapter
    \/ UserRemovesChapter

Spec == Init /\ [][Next]_vars

(************************ cmd: init *****************************************)
\* --template of init: one with a subdirectory for the main file, one without,
\* and one that is not supported
InitTemplates == {"claude", "copilot", "vscode"}

\* a faulty check: only the main context file is looked for
checkExistingStructureFileOnly(fs, ds, config) ==
    IF config.MainFile \in DOMAIN fs THEN "main context file already exists" ELSE ""

\* checkExistingStructure: the error it returns, "" for nil
checkExistingStructure(fs, ds, config) ==
    IF config.ContextDir \in ds THEN "context directory already exists"
    ELSE IF config.MainFile \in DOMAIN fs THEN "main context file already exists"
    ELSE ""

\* createDirectoryStructure: the context directory, its .gitkeep and the
\* subdirectory of the template's main file
createDirectoryStructure(fs, ds, config, now) ==
    [files |-> WriteFile(fs, PathOf(config.ContextDir, <<".","g","i","t","k","e","e","p">>), <<>>, now),
     dirs  |-> MkdirAll(MkdirAll(ds, config.ContextDir),
                        config.ProjectRoot \o TemplateConfigs[config.Template].SubDir)]

\* runInit
RunInit ==
    /\ pc = "idle"
    /\ steps < MaxSteps
    /\ \E projectPath \in ProjectPaths, t \in InitTemplates, f \in BOOLEAN :
          LET c        == [name |-> "init", projectPath |-> projectPath,
                           templateName |-> t, force |-> f]
              writable == [files |-> WriteTest(files, projectPath),
                           dirs  |-> MkdirAll(dirs, projectPath)]
              updated  == UpdateForTemplate(DefaultConfig(projectPath), t)
              exists   == checkExistingStructure(writable.files, writable.dirs, updated.config)
              created  == createDirectoryStructure(writable.files, writable.dirs,
                                                   updated.config, clock)
              rendered == ApplyTemplate(created.files, created.dirs, templateFS,
                                        updated.config, clock)
          IN  /\ cmd' = c
              /\ IF ~ValidateTemplate(t)
                 THEN /\ result' = Failed("unsupported template")
                      /\ UNCHANGED <<files, dirs>>
                 ELSE IF ~f /\ exists # ""
                 THEN /\ result' = Failed(exists)
                      /\ files' = writable.files
                      /\ dirs' = writable.dirs
                 ELSE /\ result' = Ok
                      /\ files' = rendered.files
                      /\ dirs' = rendered.dirs
    /\ steps' = steps + 1
    /\ UNCHANGED <<fa, parseErr, clock, pc>>
    /\ UNCHANGED analyzerVars

\* a project before init: nothing but, possibly, the project directory and a
\* monolithic CLAUDE.md in the working directory
InitFresh ==
    /\ \/ files = <<>>
       \/ \E d \in SourceDocuments : files = WriteFile(<<>>, PathOf(<<>>, <<"C","L","A","U","D","E",".","m","d">>), d, 0)
    /\ dirs \in {{<<>>}, {<<>>, <<<<"p","r","o","j">>>>}}
    /\ clock = 0
    /\ templateFS \in EmbeddedTemplates
    /\ cmd = NoCmd
    /\ result = NoResult
    /\ steps = 0
    /\ synced = <<>>
    /\ fa = NewFileAnalyzer
    /\ parseErr = "none"
    /\ section = Nil
    /\ fileNames = <<>>
    /\ pc = "idle"

NextInit ==
    \/ RunInit
    \/ RunUpdate
    \/ UserWritesChapter
    \/ UserRemovesChapter

SpecInit == InitFresh /\ [][NextInit]_vars

(************************ SpecSync: the chapter list put into an index ******)
\* the index documents a placeholder substitution is applied to: a rendered
\* template with either placeholder, a text with both, one with the same
\* placeholder twice, and a text with none
IndexDocuments ==
    { TemplateText("claude", placeholders[1]),
      TemplateText("gemini", placeholders[2]),
      <<placeholders[1], "\n", placeholders[2]>>,
      <<placeholders[2], " ", placeholders[2], "\n">>,
      <<"#"," ","I","n","d","e","x","\n">> }

\* the file names os.ReadDir can list in a context directory; the last one is a
\* file a user named after the first placeholder
ScannedNames ==
    {<<"a","u","t","h","-","f","l","o","w",".","m","d">>, <<"d","a","t","a","-","m","o","d","e","l",".","m","d">>, <<placeholders[1]>> \o <<".","m","d">>}

\* what scanContextDirectory can return for at most two such files
ScannedLists ==
    {<<>>} \cup {<<[FileName |-> a]>> : a \in ScannedNames}
           \cup {<<[FileName |-> a], [FileName |-> b]>> : a, b \in ScannedNames}

\* --context-dir
ContextDirNames == {<<"c","o","n","t","e","x","t">>, <<"d","o","c","s">>}

\* an index document, and the chapters either scanned from a directory or
\* generated by the analyzer from a source document
InitSync ==
    /\ \E doc \in IndexDocuments :
           files = WriteFile(<<>>, PathOf(<<>>, <<"C","L","A","U","D","E",".","m","d">>), doc, 0)
    /\ \E dir \in ContextDirNames :
          \/ /\ fa = NewFileAnalyzer
             /\ \E chapters \in ScannedLists :
                    cmd = [name |-> "sync", contextDirName |-> dir, contextFiles |-> chapters]
          \/ \E d \in SourceDocuments :
                LET r == parseSourceFile(NewFileAnalyzer, d)
                IN  \E cfs \in generateContextFiles(r.fa.sections) :
                       /\ fa = [r.fa EXCEPT !.contextFiles = cfs]
                       /\ cmd = [name |-> "sync", contextDirName |-> dir, contextFiles |-> cfs]
    /\ dirs = {<<>>}
    /\ clock = 0
    /\ templateFS = <<>>
    /\ result = NoResult
    /\ steps = 0
    /\ synced = <<>>
    /\ parseErr = "none"
    /\ section = Nil
    /\ fileNames = <<>>
    /\ pc = "sync"

\* UpdateTemplateWithChapters is applied to the index once more
Sync ==
    /\ pc = "sync"
    /\ Len(synced) < MaxSyncs
    /\ LET r == UpdateTemplateWithChapters(files, PathOf(<<>>, <<"C","L","A","U","D","E",".","m","d">>),
                                           cmd.contextFiles, cmd.contextDirName, clock)
       IN  /\ files' = r.files
           /\ synced' = Append(synced, [content     |-> r.files[PathOf(<<>>, <<"C","L","A","U","D","E",".","m","d">>)].content,
                                        chapterList |-> r.chapterList,
                                        ok          |-> r.ok])
    /\ UNCHANGED <<fa, parseErr, section, fileNames, pc, dirs, clock, templateFS, cmd,
                   result, steps>>

NextSync == Sync

SpecSync == InitSync /\ [][NextSync]_vars

(************************ SpecName: naming one section **********************)
Titles ==
    { <<"A","u","t","h"," ","F","l","o","w">>,
      <<>>,
      <<"O","f"," ","I","t">>,
      <<"W","h","a","t","'","s"," ","N","e","w","?">>,
      <<"C","a","f","<C3>","<A9>"," ","M","e","n","u">>,
      <<"?","?","?">>,
      <<"#","#"," ","N","o","t","e","s">>,
      <<"D","a","t","a","b","a","s","e"," ","S","e","t","u","p"," ","A","n","d"," ","D","e","p","l","o","y","m","e","n","t"," ","G","u","i","d","e">>,
      <<"I","n","t","e","r","n","a","t","i","o","n","a","l","i","z","a","t","i","o","n"," ","C","o","n","f","i","g","u","r","a","t","i","o","n"," ","T","r","o","u","b","l","e","s","h","o","o","t","i","n","g">> }

\* section bodies of ten words and more
Bodies ==
    { <<"o","n","e"," ","t","w","o"," ","t","h","r","e","e"," ","f","o","u","r"," ","f","i","v","e"," ","s","i","x"," ","s","e","v","e","n"," ","e","i","g","h","t"," ","n","i","n","e"," ","t","e","n">>,
      <<"o","n","e"," ","t","w","o"," ","t","h","r","e","e"," ","f","o","u","r"," ","f","i","v","e"," ","s","i","x"," ","s","e","v","e","n"," ","e","i","g","h","t"," ","n","i","n","e"," ","r","e","d","i","s"," ","p","o","s","t","g","r","e","s">>,
      <<"o","n","e"," ","t","w","o"," ","t","h","r","e","e"," ","f","o","u","r"," ","f","i","v","e"," ","s","i","x"," ","s","e","v","e","n"," ","e","i","g","h","t"," ","n","i","n","e"," ","l","o","g","i","n"," ","o","a","u","t","h"," ","j","w","t">>,
      <<"o","n","e"," ","t","w","o"," ","t","h","r","e","e"," ","f","o","u","r"," ","f","i","v","e"," ","s","i","x"," ","s","e","v","e","n"," ","e","i","g","h","t"," ","n","i","n","e"," ","d","e","p","l","o","y"," ","c","o","n","f","i","g">>,
      <<"o","n","e"," ","t","w","o"," ","t","h","r","e","e"," ","f","o","u","r"," ","f","i","v","e"," ","s","i","x"," ","s","e","v","e","n"," ","e","i","g","h","t"," ","n","i","n","e"," ","i","n","t","e","r","e","s","t">> }

\* the retained section parseSourceFile makes of a title and a body
SectionOf(title, body) ==
    [Title |-> title, Content |-> body, StartLine |-> 1, EndLine |-> 2,
     WordCount |-> Len(Fields(body))]

InitName ==
    /\ section \in {SectionOf(t, b) : t \in Titles, b \in Bodies}
    /\ fileNames = <<>>
    /\ fa = NewFileAnalyzer
    /\ parseErr = "none"
    /\ pc = "name"
    /\ NoFileSystem

GenerateDescriptiveFileName ==
    /\ pc = "name"
    /\ Len(fileNames) < MaxCalls
    /\ \E n \in FileNamesOf(section) : fileNames' = Append(fileNames, n)
    /\ UNCHANGED <<fa, parseErr, section, pc>>
    /\ UNCHANGED fsVars

NextName == GenerateDescriptiveFileName

SpecName == InitName /\ [][NextName]_vars

(************************ SpecSanitize: SanitizeFileName on a name **********)
MaxTail == 4

\* the characters of the names: a letter, the dash, and three of the
\* characters SanitizeFileName replaces
SanitizeAlphabet == {"a", "-", "/", "|", "\""}

\* a run of letters two short of the longest file name
Padding == [i \in 1..(MaxFileNameLength - 2) |-> "a"]

RECURSIVE Tails(_)
Tails(n) ==
    IF n = 0 THEN {<<>>}
    ELSE Tails(n - 1) \cup {Append(t, c) : t \in {u \in Tails(n - 1) : Len(u) = n - 1},
                                          c \in SanitizeAlphabet}

\* the names given to SanitizeFileName: short ones, and long ones that reach
\* the length limit
SanitizeInputs == {pad \o t : pad \in {<<>>, Padding}, t \in Tails(MaxTail)}

InitSanitize ==
    /\ section \in {[Title |-> name] : name \in SanitizeInputs}
    /\ fileNames = <<>>
    /\ fa = NewFileAnalyzer
    /\ parseErr = "none"
    /\ pc = "sanitize"
    /\ NoFileSystem

Sanitize ==
    /\ pc = "sanitize"
    /\ fileNames' = <<SanitizeFileName(section.Title)>>
    /\ pc' = "sanitized"
    /\ UNCHANGED <<fa, parseErr, section>>
    /\ UNCHANGED fsVars

NextSanitize == Sanitize

SpecSanitize == InitSanitize /\ [][NextSanitize]_vars

(************************ SpecConfig: UpdateForTemplate on a config *********)
\* the project roots of the configs
ConfigRoots == {<<>>, <<<<"p","r","o","j">>>>, <<<<"w","o","r","k">>>>, <<<<"w","o","r","k">>, <<"a","p","p">>>>}

\* the template names given to UpdateForTemplate: the supported ones, the empty
\* string and two names that are not supported
ConfigTemplates == Range(SupportedTemplates) \cup {"", "vscode", "Claude"}

\* a config as DefaultConfig makes it, or with a context directory of the
\* caller's choice
InitConfig ==
    /\ \E root \in ConfigRoots, contextDir \in {<<<<"c","o","n","t","e","x","t">>>>, <<<<"d","o","c","s">>>>} :
           cmd = [name   |-> "config", template |-> "",
                  config |-> [DefaultConfig(root) EXCEPT !.ContextDir = root \o contextDir]]
    /\ result = NoResult
    /\ steps = 0
    /\ files = <<>>
    /\ dirs = {}
    /\ clock = 0
    /\ templateFS = <<>>
    /\ synced = <<>>
    /\ fa = NewFileAnalyzer
    /\ parseErr = "none"
    /\ section = Nil
    /\ fileNames = <<>>
    /\ pc = "config"

\* pc.UpdateForTemplate(template)
UpdateConfig ==
    /\ pc = "config"
    /\ steps < MaxSteps
    /\ \E t \in ConfigTemplates :
          LET r == UpdateForTemplate(cmd.config, t)
          IN  /\ cmd' = [cmd EXCEPT !.config = r.config, !.template = t]
              /\ result' = IF r.ok THEN Ok ELSE Failed(r.error)
    /\ steps' = steps + 1
    /\ UNCHANGED <<fa, parseErr, section, fileNames, pc, files, dirs, clock, templateFS, synced>>

NextConfig == UpdateConfig

SpecConfig == InitConfig /\ [][NextConfig]_vars

(************************ SpecSummary: generateContentSummary on a body ****)
\* n letters
Letters(n) == [i \in 1..n |-> "a"]

\* what a body starts with, up to its first full stop or its end: letters,
\* around the lengths 10 and 100 that generateContentSummary tests, some
\* followed by white space
SummaryStarts ==
    {Letters(n) \o sp : n \in {0, 3, 9, 10, 11, 99, 100, 101}, sp \in {<<>>, <<" "," ">>}}

\* what follows: nothing, or a full stop and more text, short or long
SummaryRests ==
    {<<>>, <<".">>, <<"."," ","b">>, <<"."," ","b","."," ","c">>, <<"."," ">> \o Letters(60), <<".">> \o Letters(100) \o <<"."," ","d">>}

\* a section's content, trimmed as parseSourceFile leaves it
InitSummary ==
    /\ section \in {[Title |-> <<"N","o","t","e","s">>, Content |-> TrimSpace(s \o r)] :
                       s \in SummaryStarts, r \in SummaryRests}
    /\ fileNames = <<>>
    /\ fa = NewFileAnalyzer
    /\ parseErr = "none"
    /\ pc = "summary"
    /\ NoFileSystem

Summarize ==
    /\ pc = "summary"
    /\ fileNames' = <<generateContentSummary(section)>>
    /\ pc' = "summarized"
    /\ UNCHANGED <<fa, parseErr, section>>
    /\ UNCHANGED fsVars

NextSummary == Summarize

SpecSummary == InitSummary /\ [][NextSummary]_vars

(************************ SpecTerms: extractKeyTerms on a body **************)
\* the words of the bodies: vocabulary terms as written in the list, in upper
\* case, inside a longer word, and a word that holds no term
TermWords ==
    { <<"d","o","c","k","e","r">>, <<"a","p","i">>, <<"R","E","D","I","S">>, <<"K","u","b","e","r","n","e","t","e","s">>, <<"a","p","i","a","r","y">>, <<"o","a","u","t","h","2","-","j","w","t">>,
      <<"s","c","h","e","m","a">>, <<"d","a","t","a","b","a","s","e">>, <<"p","l","a","i","n">> }

\* the bodies: one word, or two words in either order, or one word twice
TermBodies ==
    TermWords \cup {a \o <<" ">> \o b : a, b \in TermWords}

InitTerms ==
    /\ section \in {[Title |-> <<"N","o","t","e","s">>, Content |-> b] : b \in TermBodies}
    /\ fileNames = <<>>
    /\ fa = NewFileAnalyzer
    /\ parseErr = "none"
    /\ pc = "terms"
    /\ NoFileSystem

ExtractKeyTerms ==
    /\ pc = "terms"
    /\ fileNames' = extractKeyTerms(section)
    /\ pc' = "extracted"
    /\ UNCHANGED <<fa, parseErr, section>>
    /\ UNCHANGED fsVars

NextTerms == ExtractKeyTerms

SpecTerms == InitTerms /\ [][NextTerms]_vars

(************************ the claims ****************************************)
\* the document split at its newlines, line ends kept as they are
RECURSIVE DocLines(_)
DocLines(doc) ==
    IF doc = <<>> THEN <<>>
    ELSE LET nl == {i \in 1..Len(doc) : doc[i] = "\n"}
             n  == IF nl = {} THEN Len(doc) + 1 ELSE Min(nl)
         IN  <<SubSeq(doc, 1, n - 1)>> \o DocLines(SubSeq(doc, n + 1, Len(doc)))

\* the numbers of the lines of doc whose trimmed form starts with "##"
HeaderLines(doc) ==
    {i \in 1..Len(DocLines(doc)) :
        LET t == TrimSpace(DocLines(doc)[i]) IN Len(t) >= 2 /\ t[1] = "#" /\ t[2] = "#"}

\* the first header line after line i, or the line after the last one
NextHeader(doc, i) ==
    LET later == {h \in HeaderLines(doc) : h > i}
    IN  IF later = {} THEN Len(DocLines(doc)) + 1 ELSE Min(later)

\* the text between header line i and the next header line (or the end)
TextBetween(doc, i) ==
    Join(SubSeq(DocLines(doc), i + 1, NextHeader(doc, i) - 1), <<"\n">>)

\* that text as the scanner's lines give it (a carriage return before a newline
\* dropped), without its leading and trailing white space
TrimmedBetween(doc, i) ==
    LET ls == SubSeq(DocLines(doc), i + 1, NextHeader(doc, i) - 1)
    IN  TrimSpace(Join([k \in 1..Len(ls) |-> DropCR(ls[k])], <<"\n">>))

WordsIn(text) == Len(Fields(text))

\* every header of doc is followed by at least 10 words of body
AllHeadersQualify(doc) ==
    \A h \in HeaderLines(doc) : WordsIn(TextBetween(doc, h)) >= 10

\* the k-th header line of doc
KthHeader(doc, k) ==
    CHOOSE h \in HeaderLines(doc) : Cardinality({g \in HeaderLines(doc) : g <= h}) = k

Parsed == pc \in {"generate", "analyzed", "failed"}

\* C1: any two invocations of generateDescriptiveFileName on the same section
\* return the same identifier.
C1_Deterministic ==
    \A i, j \in 1..Len(fileNames) : fileNames[i] = fileNames[j]

C3_MinWordCount ==
    Parsed =>
        /\ \A k \in 1..Len(fa.sections) :
               /\ fa.sections[k].WordCount >= 10
               /\ fa.sections[k].WordCount = WordsIn(fa.sections[k].Content)
               /\ fa.sections[k].StartLine \in HeaderLines(fa.content)
               /\ fa.sections[k].Content = TrimmedBetween(fa.content, fa.sections[k].StartLine)
        /\ \A h \in HeaderLines(fa.content) :
               WordsIn(TextBetween(fa.content, h)) < 10 =>
                   \A k \in 1..Len(fa.sections) : fa.sections[k].StartLine # h
        /\ \A k \in 1..Len(fa.contextFiles) :
               /\ fa.contextFiles[k].WordCount >= 10
               /\ fa.contextFiles[k].Content = fa.sections[k].Content

\* a short section was dropped between or beside a retained one
C3_Witness ==
    /\ pc = "analyzed"
    /\ Len(fa.contextFiles) = 1
    /\ \E h \in HeaderLines(fa.content) :
           /\ WordsIn(TextBetween(fa.content, h)) \in 1..9
           /\ h < fa.sections[1].StartLine

\* the characters an identifier may hold
IdentifierChars ==
    Range(LowerLetters) \cup Range(<<"0","1","2","3","4","5","6","7","8","9">>) \cup {"-"}

\* C9: the identifier holds only characters of [a-z0-9-], then ".md".
C9_SafeCharacters ==
    \A i \in 1..Len(fileNames) :
        /\ HasSuffix(fileNames[i], <<".","m","d">>)
        /\ Range(TrimSuffix(fileNames[i], <<".","m","d">>)) \subseteq IdentifierChars

\* the section yields no title, topic or function descriptor
NoDescriptor(sec) ==
    LET content == ToLower(sec.Title \o <<" ">> \o sec.Content)
    IN  /\ extractTitleDescriptor(sec.Title) = <<>>
        /\ Matching(techPatterns, content) = {}
        /\ Matching(funcPatterns, content) = {}

\* C10: a section that yields no descriptor is named "general-context.md".
C10_DefaultIdentifier ==
    (section # Nil /\ NoDescriptor(section)) =>
        \A i \in 1..Len(fileNames) : fileNames[i] = <<"g","e","n","e","r","a","l","-","c","o","n","t","e","x","t",".","m","d">>

\* the lines of a chapter list: every entry ends with "\n"
EntryLines(list) == DocLines(list)

\* "<n>. **<identifier>** - <bq><contextDirectoryName>/<identifier>.md<bq>"
ExpectedEntry(n, identifier, contextDirectoryName) ==
    Itoa(n) \o <<"."," ","*","*">> \o identifier \o <<"*","*"," ","-"," ","<bq>">> \o contextDirectoryName \o <<"/">>
        \o identifier \o <<".","m","d","<bq>">>

\* C4: UpdateTemplateWithChapters builds one entry per supplied chapter,
\* numbered consecutively from 1 in the order supplied, each naming the chapter
\* identifier and the path <contextDirectoryName>/<identifier>.md; for a full
\* conversion that order is the source-document order of the retained sections.
C4_ChapterListOrder ==
    \A s \in 1..Len(synced) :
        LET entries == EntryLines(synced[s].chapterList)
        IN  /\ Len(entries) = Len(cmd.contextFiles)
            /\ \A k \in 1..Len(cmd.contextFiles) :
                   entries[k] = ExpectedEntry(k, TrimSuffix(cmd.contextFiles[k].FileName, <<".","m","d">>),
                                              cmd.contextDirName)
            /\ Len(fa.contextFiles) = Len(fa.sections)
            /\ fa.sections # <<>> =>
                   /\ cmd.contextFiles = fa.contextFiles
                   /\ \A k \in 1..Len(fa.sections) :
                          /\ cmd.contextFiles[k].Content = fa.sections[k].Content
                          /\ cmd.contextFiles[k].FileName \in FileNamesOf(fa.sections[k])
                          /\ k > 1 => fa.sections[k - 1].StartLine < fa.sections[k].StartLine

\* a list of two different chapters, generated from a source document, was built
C4_Witness ==
    /\ Len(synced) >= 1
    /\ Len(fa.sections) = 2
    /\ Len(EntryLines(synced[1].chapterList)) = 2
    /\ cmd.contextFiles[1].FileName # cmd.contextFiles[2].FileName

\* the path an entry line of an index names, <<>> for a line that is no entry
EntryPath(line) ==
    LET at == Index(line, <<"*","*"," ","-"," ","<bq>">>)
    IN  IF at > 0 /\ line # <<>> /\ line[Len(line)] = "<bq>" /\ at + 6 <= Len(line) - 1
        THEN SubSeq(line, at + 6, Len(line) - 1)
        ELSE <<>>

\* the paths the entries of an index text name
IndexRefs(text) ==
    {EntryPath(DocLines(text)[i]) : i \in 1..Len(DocLines(text))} \ {<<>>}

\* the paths the index file at path names; none when there is no such file
RefsOf(path) ==
    IF path \in DOMAIN files THEN IndexRefs(files[path].content) ELSE {}

ConvertSucceeded ==
    /\ cmd.name = "convert"
    /\ ~cmd.dryRun
    /\ result = Ok

\* C5: after a successful (non-dry-run) convert, every chapter file written by
\* this convert into the context directory has an entry in the index, and every
\* entry of the index names a file that exists in the context directory.
C5_IndexReferencesChapters ==
    ConvertSucceeded =>
        LET refs == RefsOf(GetMainFileForTemplate(cmd.templateType, <<>>))
        IN  /\ \A k \in 1..Len(cmd.contextFiles) :
                   /\ PathOf(<<cmd.contextDir>>, cmd.contextFiles[k].FileName) \in DOMAIN files
                   /\ cmd.contextDir \o <<"/">> \o cmd.contextFiles[k].FileName \in refs
            /\ \A r \in refs :
                   \E n \in DirFiles(files, <<cmd.contextDir>>) : r = cmd.contextDir \o <<"/">> \o n

\* a convert of two sections into a directory that held a file already succeeded
C5_Witness ==
    /\ ConvertSucceeded
    /\ cmd.force
    /\ Len(cmd.contextFiles) = 2
    /\ cmd.contextFiles[1].FileName # cmd.contextFiles[2].FileName
    /\ Cardinality(DirFiles(files, <<cmd.contextDir>>)) = 3

\* the .md files of the context directory of a project
ChapterFilesOf(fs, projectPath) ==
    {n \in DirFiles(fs, projectPath \o <<<<"c","o","n","t","e","x","t">>>>) : HasSuffix(n, <<".","m","d">>)}

\* an update run that got as far as deciding whether to regenerate the index
UpdateDecides ==
    /\ cmd'.name = "update"
    /\ steps' = steps + 1
    /\ result'.status \in {"ok", "up to date"}

\* C6: for an update run on any project path, index regeneration is skipped if
\* and only if none of these holds: (a) the index file does not exist, (b) some
\* chapter file of the project's context directory has a modification time
\* strictly after the index file's, (c) --force is given.
C6_SkippedIffNotNeeded ==
    [][UpdateDecides =>
          LET indexFile == GetMainFileForTemplate(cmd'.updateTemplate, cmd'.projectPath)
              a == indexFile \notin DOMAIN files
              b == /\ ~a
                   /\ \E n \in ChapterFilesOf(files, cmd'.projectPath) :
                         files[PathOf(cmd'.projectPath \o <<<<"c","o","n","t","e","x","t">>>>, n)].mtime
                             > files[indexFile].mtime
              c == cmd'.forceUpdate
          IN  (result'.status = "up to date") <=> ~(a \/ b \/ c)]_vars

\* an update without --force returned nil
UpdateReturned ==
    /\ cmd.name = "update"
    /\ ~cmd.forceUpdate
    /\ result.status \in {"ok", "up to date", "no chapter files"}

\* C7: after chapter files have been added to, removed from or modified in the
\* context directory, running update (without --force) leaves the index file
\* listing exactly the .md files currently present in the context directory.
C7_IndexListsCurrentChapters ==
    UpdateReturned =>
        RefsOf(GetMainFileForTemplate(cmd.updateTemplate, cmd.projectPath))
            = {<<"c","o","n","t","e","x","t","/">> \o n : n \in ChapterFilesOf(files, cmd.projectPath)}

\* C8: applying the placeholder substitution of UpdateTemplateWithChapters
\* twice gives the same text as applying it once.
C8_Idempotent ==
    Len(synced) >= 2 => synced[2].content = synced[1].content

\* a step of a convert run
ConvertStep == cmd'.name = "convert" /\ (pc # "idle" \/ steps' = steps + 1)

\* C11: a convert run with --dry-run writes no file: no backup directory or
\* backup file, no context directory or chapter file is created, and the index
\* file is neither created nor modified, whatever the outcome of the analysis.
C11_DryRunWritesNothing ==
    [][(ConvertStep /\ cmd'.dryRun) => (files' = files /\ dirs' = dirs)]_vars

\* a dry run previewed two chapters with backups enabled
C11_Witness ==
    /\ cmd.name = "convert"
    /\ cmd.dryRun
    /\ ~cmd.noBackup
    /\ result = Ok
    /\ Len(cmd.contextFiles) = 2

\* createBackup has returned in this convert run
BackupMade == cmd.name = "convert" /\ cmd.backupFile # NoPath

\* C12: in a non-dry-run convert without --no-backup, a file holding the
\* source's original bytes exists in the backup directory before any chapter
\* file or the index file is written, and still exists with those bytes when
\* convert finishes.
C12_BackupKept ==
    (cmd.name = "convert" /\ ~cmd.dryRun /\ ~cmd.noBackup) =>
        /\ (pc \in {"analyze", "execute", "write", "index"} \/ result = Ok) => BackupMade
        /\ BackupMade =>
               /\ cmd.backupFile.dir = DirOf(cmd.backupDir)
               /\ cmd.backupFile \in DOMAIN files
               /\ files[cmd.backupFile].content = cmd.content

\* the context directory exists and has an entry
ContextDirInUse(c) ==
    /\ DirOf(c.contextDir) \in dirs
    /\ \E p \in DOMAIN files : p.dir = DirOf(c.contextDir)

\* C13: if the context directory already exists and contains at least one entry
\* and --force is not given, convert returns an error during input validation
\* and writes nothing; and when backups are enabled, convert is rejected
\* whenever the context directory and the backup directory are the same
\* directory.
C13_ConflictsRejected ==
    [][(pc = "idle" /\ cmd'.name = "convert" /\ steps' = steps + 1) =>
          (((ContextDirInUse(cmd') /\ ~cmd'.force)
              \/ (~cmd'.noBackup /\ DirOf(cmd'.contextDir) = DirOf(cmd'.backupDir))) =>
                 /\ result'.status = "error"
                 /\ pc' = "idle"
                 /\ files' = files
                 /\ dirs' = dirs)]_vars

\* doc has no header line followed by at least 10 words of body
NoRetainedSection(doc) ==
    \A h \in HeaderLines(doc) : WordsIn(TextBetween(doc, h)) < 10

\* the source file of the convert run holds a document without retained section
SourceWithoutSections(c) ==
    /\ PathOf(<<>>, c.sourceFile) \in DOMAIN files
    /\ NoRetainedSection(files[PathOf(<<>>, c.sourceFile)].content)

\* C14: a source document with zero retained sections makes convert return the
\* error "no content sections found in source file" instead of succeeding, and
\* no chapter file or index file is written (a step of such a run changes no
\* file outside the backup directory).
C14_NoSectionsIsAnError ==
    [][(ConvertStep /\ SourceWithoutSections(cmd')) =>
          /\ result' # Ok
          /\ pc = "analyze" =>
                 (pc' = "idle" /\ result' = Failed("no content sections found in source file"))
          /\ pc' \notin {"execute", "write", "index"}
          /\ dirs' \subseteq dirs \cup {DirOf(cmd'.backupDir)}
          /\ DOMAIN files \subseteq DOMAIN files'
          /\ \A p \in DOMAIN files' :
                 p.dir # DirOf(cmd'.backupDir) => (p \in DOMAIN files /\ files'[p] = files[p])]_vars

\* a convert with a backup made ended with that error
C14_Witness ==
    /\ BackupMade
    /\ pc = "idle"
    /\ result = Failed("no content sections found in source file")

\* the index document of a synchronisation
IndexDoc(fs) == fs[PathOf(<<>>, <<"C","L","A","U","D","E",".","m","d">>)].content

\* how often the known placeholder strings occur in text
Occurrences(text) ==
    Cardinality({i \in 1..Len(text) : \E k \in 1..Len(placeholders) : text[i] = placeholders[k]})

\* UpdateTemplateWithChapters has just been applied once more
Synchronised == synced' # synced

\* C15: if the index document contains neither of the two known placeholder
\* strings, UpdateTemplateWithChapters leaves the document text unchanged and
\* returns no error, for every chapter list.
C15_NoPlaceholderNoChange ==
    [][(Synchronised /\ Occurrences(IndexDoc(files)) = 0) =>
          /\ IndexDoc(files') = IndexDoc(files)
          /\ synced'[Len(synced')].ok
          /\ synced'[Len(synced')].content = IndexDoc(files)]_vars

\* two chapters were synchronised into an index without placeholder
C15_Witness ==
    /\ Len(synced) >= 1
    /\ Len(cmd.contextFiles) = 2
    /\ synced[1].ok
    /\ synced[1].content = <<"#"," ","I","n","d","e","x","\n">>

\* no chapter file is named after a placeholder
PlainChapterNames ==
    \A k \in 1..Len(cmd.contextFiles) : Occurrences(cmd.contextFiles[k].FileName) = 0

\* C16: when the index document contains several occurrences of the known
\* placeholder strings, only the first occurrence is replaced by the chapter
\* list and every other occurrence is left in the text.
C16_FirstMatchOnly ==
    [][(Synchronised /\ PlainChapterNames /\ Occurrences(IndexDoc(files)) >= 1) =>
          Occurrences(IndexDoc(files')) = Occurrences(IndexDoc(files)) - 1]_vars

\* text with each of its atoms that is a placeholder replaced by list
RECURSIVE Substituted(_, _)
Substituted(text, list) ==
    LET at == {i \in 1..Len(text) : Occurrences(<<text[i]>>) = 1}
    IN  IF at = {} THEN text
        ELSE SubSeq(text, 1, Min(at) - 1) \o list
                 \o Substituted(SubSeq(text, Min(at) + 1, Len(text)), list)

\* C16 as amended: for chapters whose names hold no placeholder string, every
\* occurrence of either known placeholder string in the index document is
\* replaced by the trimmed chapter list, so none is left in the text.
C16_EveryOccurrenceReplaced ==
    [][(Synchronised /\ PlainChapterNames) =>
          /\ Occurrences(IndexDoc(files')) = 0
          /\ IndexDoc(files')
                 = Substituted(IndexDoc(files), TrimSpace(synced'[Len(synced')].chapterList))]_vars

\* an index with two placeholders got the entry of its one chapter twice
C16_Witness ==
    /\ Len(synced) >= 1
    /\ Len(cmd.contextFiles) = 1
    /\ PlainChapterNames
    /\ Occurrences(synced[1].content) = 0
    /\ Cardinality({i \in 1..Len(DocLines(synced[1].content)) :
                       EntryPath(DocLines(synced[1].content)[i]) # <<>>}) = 2

\* a step that is a run of init
InitStep == pc = "idle" /\ cmd'.name = "init" /\ steps' = steps + 1

\* C17: init without --force returns an error and creates or overwrites nothing
\* (no context directory, no .gitkeep, no template subdirectory, no index
\* file) whenever the context directory or the main index file already exists;
\* with --force it proceeds and rewrites the index file from the template.
C17_InitKeepsExistingStructure ==
    [][(InitStep /\ ValidateTemplate(cmd'.templateName)) =>
          LET contextDir == cmd'.projectPath \o <<<<"c","o","n","t","e","x","t">>>>
              mainFile   == PathOf(cmd'.projectPath \o TemplateConfigs[cmd'.templateName].SubDir,
                                   TemplateConfigs[cmd'.templateName].MainFile)
          IN  /\ (~cmd'.force /\ (contextDir \in dirs \/ mainFile \in DOMAIN files)) =>
                     /\ result'.status = "error"
                     /\ files' = files
                     /\ dirs' = dirs
              /\ cmd'.force =>
                     /\ result' = Ok
                     /\ contextDir \in dirs'
                     /\ mainFile \in DOMAIN files'
                     /\ files'[mainFile].content = templateFS[cmd'.templateName]]_vars

\* init without --force was refused in a project whose context directory holds
\* a chapter and whose index lists it
C17_Witness ==
    /\ cmd.name = "init"
    /\ ~cmd.force
    /\ result.status = "error"
    /\ ChapterFilesOf(files, cmd.projectPath) # {}
    /\ RefsOf(GetMainFileForTemplate("claude", cmd.projectPath)) # {}

\* C18: for every ContextFile produced by generateContextFiles, TokenCount is
\* floor(len(Content) / 4), where Content is the stored section content.
C18_TokenCount ==
    pc = "analyzed" =>
        \A k \in 1..Len(fa.contextFiles) :
            LET file == fa.contextFiles[k]
            IN  /\ file.Content = fa.sections[k].Content
                /\ file.TokenCount \in Nat
                /\ 4 * file.TokenCount <= Len(file.Content)
                /\ Len(file.Content) < 4 * (file.TokenCount + 1)

\* a ContextFile was produced whose content length is not a multiple of four,
\* so that the division rounds
C18_Witness ==
    /\ pc = "analyzed"
    /\ \E k \in 1..Len(fa.contextFiles) :
           /\ Len(fa.contextFiles[k].Content) % 4 # 0
           /\ fa.contextFiles[k].TokenCount > 0

\* C19: for every input string, SanitizeFileName returns a non-empty string of
\* at most 100 characters that contains none of / \ : * ? " < > |, contains no
\* two consecutive dashes, and neither starts nor ends with a dash; an input
\* that sanitizes to nothing gives "unnamed".
C19_SanitizedName ==
    pc = "sanitized" =>
        LET name == section.Title
            out  == fileNames[1]
        IN  /\ out # <<>>
            /\ Len(out) <= 100
            /\ Range(out) \cap Range(UnsafeChars) = {}
            /\ \A i \in 1..(Len(out) - 1) : ~(out[i] = "-" /\ out[i + 1] = "-")
            /\ out[1] # "-"
            /\ out[Len(out)] # "-"
            /\ Range(name) \subseteq (Range(UnsafeChars) \cup {"-"}) => out = <<"u","n","n","a","m","e","d">>

\* the same, for the names that are not cut at the length limit
C19_ShortNames ==
    (pc = "sanitized" /\ Len(section.Title) <= 100) => C19_SanitizedName

\* C20: UpdateForTemplate(t) for a supported template t (generic, claude,
\* cursor, copilot, gemini) sets Template = t and MainFile =
\* ProjectRoot/[SubDir/]MainFile and leaves ProjectRoot and ContextDir
\* unchanged; for any other t, the empty string included, it returns an
\* "unsupported template" error and leaves every field unchanged.
C20_UpdateForTemplate ==
    [][(pc = "config" /\ steps' = steps + 1) =>
          LET t      == cmd'.template
              before == cmd.config
              after  == cmd'.config
          IN  IF t \in {"generic", "claude", "cursor", "copilot", "gemini"}
              THEN /\ result' = Ok
                   /\ after.Template = t
                   /\ after.MainFile = GetMainFileForTemplate(t, before.ProjectRoot)
                   /\ after.MainFile.name = TemplateConfigs[t].MainFile
                   /\ after.MainFile.dir =
                          IF TemplateConfigs[t].SubDir # <<>>
                          THEN before.ProjectRoot \o TemplateConfigs[t].SubDir
                          ELSE before.ProjectRoot
                   /\ after.ProjectRoot = before.ProjectRoot
                   /\ after.ContextDir = before.ContextDir
              ELSE /\ result'.status = "error"
                   /\ result'.error = "unsupported template"
                   /\ after = before]_vars

\* a config of a project below the working directory was switched to copilot,
\* whose main file lies in a subdirectory, and then given a template that is
\* not supported
C20_Witness ==
    /\ pc = "config"
    /\ steps = 2
    /\ result.status = "error"
    /\ cmd.template = ""
    /\ cmd.config.Template = "copilot"
    /\ cmd.config.ProjectRoot = <<<<"w","o","r","k">>, <<"a","p","p">>>>
    /\ cmd.config.MainFile.dir = <<<<"w","o","r","k">>, <<"a","p","p">>, <<".","g","i","t","h","u","b">>>>

\* the label of the first entry of m, in the order of its declaration, whose
\* pattern matches content; empty when none matches
FirstDeclared(m, content) ==
    IF Matching(m, content) = {} THEN <<>> ELSE m[Min(Matching(m, content))].descriptor

\* the identifier built from the title descriptor and the given topic and
\* function descriptors
NameWith(sec, topic, function) ==
    LET parts == AppendNonEmpty(AppendNonEmpty(AppendNonEmpty(<<>>,
                     extractTitleDescriptor(sec.Title)), topic), function)
        name  == SanitizeFileName(Join(parts, <<"-">>))
        cut   == IF Len(name) > 60 THEN SubSeq(name, 1, 60) ELSE name
    IN  cut \o <<".","m","d">>

\* C21: the topic descriptor and the function descriptor are each the label of
\* the first entry, in the table's declaration order, whose pattern matches the
\* lower-cased title and body, so a text that matches several patterns always
\* gets the label of the earliest declared one.
C21_DeclarationOrder ==
    \A k \in 1..Len(fileNames) :
        LET content == ToLower(section.Title \o <<" ">> \o section.Content)
        IN  fileNames[k] = NameWith(section, FirstDeclared(techPatterns, content),
                                    FirstDeclared(funcPatterns, content))

\* the same for the sections whose text matches at most one pattern of each table
C21_SingleMatch ==
    LET content == ToLower(section.Title \o <<" ">> \o section.Content)
    IN  (Cardinality(Matching(techPatterns, content)) <= 1
            /\ Cardinality(Matching(funcPatterns, content)) <= 1) => C21_DeclarationOrder

\* the number of header markers the trimmed line starts with; 0 for a line
\* that is no header
RECURSIVE Markers(_)
Markers(t) == IF t # <<>> /\ Head(t) = "#" THEN 1 + Markers(Tail(t)) ELSE 0

Level(doc, i) == Markers(TrimSpace(DocLines(doc)[i]))

\* the first line after header line i that is a header of the same or a higher
\* significance (as many markers or fewer), or the line after the last one
NextSameOrHigher(doc, i) ==
    LET later == {h \in (i + 1)..Len(DocLines(doc)) :
                     Level(doc, h) >= 1 /\ Level(doc, h) <= Level(doc, i)}
    IN  IF later = {} THEN Len(DocLines(doc)) + 1 ELSE Min(later)

\* the scanner's lines from line a to line b, joined and trimmed
TrimmedLines(doc, a, b) ==
    LET ls == SubSeq(DocLines(doc), a, b)
    IN  TrimSpace(Join([k \in 1..Len(ls) |-> DropCR(ls[k])], <<"\n">>))

\* C22: a section's body is all text between its header and the next header of
\* the same or higher significance (or the end of the document): a deeper
\* header does not end the section, and a header of higher significance does.
C22_SameOrHigherLevel ==
    (Parsed /\ parseErr = "ok") =>
        \A k \in 1..Len(fa.sections) :
            LET h == fa.sections[k].StartLine
            IN  /\ fa.sections[k].EndLine = NextSameOrHigher(fa.content, h) - 1
                /\ fa.sections[k].Content
                       = TrimmedLines(fa.content, h + 1, NextSameOrHigher(fa.content, h) - 1)

\* C22 as amended: a section's body is the text between its header line and
\* the next line whose trimmed form starts with two or more header markers (or
\* the end of the document), whatever the two levels are: a deeper header ends
\* the section, and a line with a single marker does not and is part of the body.
C22_NextHeaderOfAnyLevel ==
    (Parsed /\ parseErr = "ok") =>
        \A k \in 1..Len(fa.sections) :
            LET h     == fa.sections[k].StartLine
                later == {g \in (h + 1)..Len(DocLines(fa.content)) : Level(fa.content, g) >= 2}
                end   == IF later = {} THEN Len(DocLines(fa.content)) ELSE Min(later) - 1
            IN  /\ Level(fa.content, h) >= 2
                /\ fa.sections[k].EndLine = end
                /\ \A g \in (h + 1)..end : Level(fa.content, g) <= 1
                /\ fa.sections[k].Content = TrimmedLines(fa.content, h + 1, end)

\* a retained section with a two-marker header holds a line with a single
\* marker and was ended by a header with three markers
C22_Witness ==
    /\ Parsed
    /\ parseErr = "ok"
    /\ \E k \in 1..Len(fa.sections) :
          LET h == fa.sections[k].StartLine
              e == fa.sections[k].EndLine
          IN  /\ Level(fa.content, h) = 2
              /\ e < Len(DocLines(fa.content))
              /\ Level(fa.content, e + 1) = 3
              /\ \E g \in (h + 1)..e : Level(fa.content, g) = 1

\* the lines of doc that no section can hold: those before the first line
\* whose trimmed form starts with "##"
BeforeFirstHeader(doc) ==
    {i \in 1..Len(DocLines(doc)) : \A h \in HeaderLines(doc) : i < h}

\* C23: a line opens a new section, closing the previous one, if and only if
\* its whitespace-trimmed form starts with "##"; all such lines are equal
\* boundaries whatever their level, a line that starts with a single "#" is no
\* boundary, and every line before the first boundary is in no section's content.
C23_Boundaries ==
    (Parsed /\ parseErr = "ok") =>
        LET doc    == fa.content
            starts == {fa.sections[k].StartLine : k \in 1..Len(fa.sections)}
        IN  /\ starts \subseteq HeaderLines(doc)
            /\ \A h \in HeaderLines(doc) :
                   h \in starts <=> WordsIn(TrimmedBetween(doc, h)) >= 10
            /\ \A k \in 1..Len(fa.sections) :
                  LET h == fa.sections[k].StartLine
                      e == fa.sections[k].EndLine
                  IN  /\ h <= e
                      /\ (h + 1)..e \cap HeaderLines(doc) = {}
                      /\ e = Len(DocLines(doc)) \/ e + 1 \in HeaderLines(doc)
                      /\ (h..e) \cap BeforeFirstHeader(doc) = {}
                      /\ fa.sections[k].Content = TrimmedLines(doc, h + 1, e)
            /\ \A k \in 1..(Len(fa.sections) - 1) :
                   fa.sections[k].EndLine < fa.sections[k + 1].StartLine

\* a document that starts with a line of a single marker and a line of text,
\* both discarded, and goes on with an indented three-marker header that opened
\* a retained section
C23_Witness ==
    /\ Parsed
    /\ parseErr = "ok"
    /\ Len(fa.sections) = 1
    /\ fa.sections[1].StartLine = 3
    /\ Level(fa.content, 1) = 1
    /\ Level(fa.content, 3) = 3
    /\ WordsIn(DocLines(fa.content)[2]) >= 1
    /\ BeforeFirstHeader(fa.content) = {1, 2}

\* the index file of a convert run, as a set: empty when there is none
IndexFileOf(fs) ==
    {fs[p] : p \in {GetMainFileForTemplate("claude", <<>>)} \cap DOMAIN fs}

\* the chapter files convert has written so far are on disk, each holding the
\* text of the last chapter written under its name
WrittenChaptersOnDisk ==
    \A j \in 1..cmd.written :
        LET path == PathOf(DirOf(cmd.contextDir), cmd.contextFiles[j].FileName)
            last == CHOOSE i \in j..cmd.written :
                        /\ cmd.contextFiles[i].FileName = cmd.contextFiles[j].FileName
                        /\ \A n \in (i + 1)..cmd.written :
                               cmd.contextFiles[n].FileName # cmd.contextFiles[j].FileName
        IN  /\ path \in DOMAIN files
            /\ files[path].content = ChapterContent(cmd.contextFiles[last])

\* C24: in a convert run a failure aborts every later stage and nothing is
\* retried or cleaned up: if writing the k-th chapter file fails, convert
\* returns that error, chapters k+1.. are not written, the index file is neither
\* regenerated nor modified, and chapter files 1..k-1 stay on disk.
C24_FailureAborts ==
    /\ [][(pc = "write" /\ result'.status = "error") =>
             /\ result'.error = "failed to write context files"
             /\ pc' = "idle"
             /\ cmd' = cmd
             /\ files' = files
             /\ dirs' = dirs
             /\ WrittenChaptersOnDisk]_vars
    /\ [][(cmd.name = "convert" /\ pc = "idle" /\ result.status = "error") =>
             (steps' = steps + 1 /\ files' = files /\ dirs' = dirs)]_vars
    /\ [][(cmd'.name = "convert" /\ (pc' # "idle" \/ result'.status = "error")) =>
             IndexFileOf(files') = IndexFileOf(files)]_vars

\* the write of the second of two chapters failed: the first one is on disk,
\* the second one and the index are not
C24_Witness ==
    /\ cmd.name = "convert"
    /\ pc = "idle"
    /\ result = Failed("failed to write context files")
    /\ Len(cmd.contextFiles) = 2
    /\ cmd.written = 1
    /\ PathOf(DirOf(cmd.contextDir), cmd.contextFiles[1].FileName) \in DOMAIN files
    /\ PathOf(DirOf(cmd.contextDir), cmd.contextFiles[2].FileName) \notin DOMAIN files
    /\ IndexFileOf(files) = {}

\* the entry lines of an index text, in order
IndexEntries(text) == SelectSeq(DocLines(text), LAMBDA line : EntryPath(line) # <<>>)

\* two of the chapters of the convert run have the same identifier
SameIdentifierTwice ==
    \E j, k \in 1..Len(cmd.contextFiles) :
        j < k /\ cmd.contextFiles[j].FileName = cmd.contextFiles[k].FileName

\* C25: identifiers are not deduplicated: when two retained sections of one
\* document get the same identifier, convert reports no error, the single
\* chapter file of that name holds the content of the later section (the
\* earlier section's content is in no chapter file), and the index still
\* carries one numbered entry per section.
C25_LaterSectionOverwrites ==
    (cmd.name = "convert" /\ ~cmd.dryRun /\ pc = "idle" /\ SameIdentifierTwice) =>
        /\ result.status = "error" => result.error = "failed to write context files"
        /\ result = Ok =>
              LET n     == Len(cmd.contextFiles)
                  index == files[GetMainFileForTemplate(cmd.templateType, <<>>)].content
                  chapterFile(k) == PathOf(DirOf(cmd.contextDir), cmd.contextFiles[k].FileName)
              IN  /\ \A j, k \in 1..n :
                         (j < k /\ cmd.contextFiles[j].FileName = cmd.contextFiles[k].FileName
                               /\ \A m \in (k + 1)..n :
                                      cmd.contextFiles[m].FileName # cmd.contextFiles[k].FileName) =>
                             /\ chapterFile(j) = chapterFile(k)
                             /\ files[chapterFile(k)].content = ChapterContent(cmd.contextFiles[k])
                             /\ \A i \in 1..n :
                                    files[chapterFile(i)].content # ChapterContent(cmd.contextFiles[j])
                  /\ Len(IndexEntries(index)) = n
                  /\ \A k \in 1..n :
                         IndexEntries(index)[k]
                             = ExpectedEntry(k, TrimSuffix(cmd.contextFiles[k].FileName, <<".","m","d">>),
                                             cmd.contextDir)

\* a convert of a document with two sections of one title succeeded
C25_Witness ==
    /\ ConvertSucceeded
    /\ pc = "idle"
    /\ Len(cmd.contextFiles) = 2
    /\ SameIdentifierTwice
    /\ cmd.contextFiles[1].Content # cmd.contextFiles[2].Content
    /\ cmd.contextDir = <<"c","o","n","t","e","x","t">>
    /\ Cardinality(DirFiles(files, DirOf(cmd.contextDir))) = 1

\* an update run has just regenerated the index
UpdateRegenerates ==
    /\ pc = "idle"
    /\ cmd'.name = "update"
    /\ steps' = steps + 1
    /\ result' = Ok

\* C26: whenever an update run regenerates the index (stale or forced), the
\* chapter list generated before is replaced, not appended to: whatever list
\* an earlier convert or update left, the resulting index lists exactly the .md
\* files now in the context directory, in directory-listing order, numbered
\* from 1, with no entry left over.
C26_ListReplaced ==
    [][UpdateRegenerates =>
          LET indexFile == GetMainFileForTemplate(cmd'.updateTemplate, cmd'.projectPath)
              entries   == IndexEntries(files'[indexFile].content)
              current   == ChapterFilesOf(files', cmd'.projectPath)
              listed    == cmd'.contextFiles
          IN  /\ Len(entries) = Cardinality(current)
              /\ Len(listed) = Len(entries)
              /\ {listed[k].FileName : k \in 1..Len(listed)} = current
              /\ \A k \in 1..(Len(listed) - 1) :
                     NameLess(listed[k].FileName, listed[k + 1].FileName)
              /\ \A k \in 1..Len(entries) :
                     entries[k] = ExpectedEntry(k, TrimSuffix(listed[k].FileName, <<".","m","d">>),
                                                <<"c","o","n","t","e","x","t">>)]_vars

\* a forced update regenerated the index a convert had left with two entries
\* (the chapter on disk holds the second of two sections of one name, so that
\* convert wrote both and then its index); the index now has the one entry of
\* the one chapter file
C26_Witness ==
    /\ cmd.name = "update"
    /\ cmd.forceUpdate
    /\ cmd.projectPath = <<>>
    /\ result = Ok
    /\ PathOf(<<<<"c","o","n","t","e","x","t">>>>, <<"n","o","t","e","s",".","m","d">>) \in DOMAIN files
    /\ files[PathOf(<<<<"c","o","n","t","e","x","t">>>>, <<"n","o","t","e","s",".","m","d">>)].content
           = <<"#"," ","n","o","t","e","s","\n","\n">> \o TenMore \o <<"\n">>
    /\ ChapterFilesOf(files, <<>>) = {<<"n","o","t","e","s",".","m","d">>}
    /\ Len(IndexEntries(files[GetMainFileForTemplate("claude", <<>>)].content)) = 1

\* the text before the first "." of body, or all of it
BeforeFirstDot(body) ==
    LET dots == {i \in 1..Len(body) : body[i] = "."}
    IN  IF dots = {} THEN body ELSE SubSeq(body, 1, Min(dots) - 1)

\* text cut to its first 100 characters and "..." when it is longer
Capped(text) ==
    IF Len(text) > 100 THEN [i \in 1..103 |-> IF i <= 100 THEN text[i] ELSE "."] ELSE text

\* C27: generateContentSummary: if the text before the first "." of the body
\* is longer than 10 characters, the summary is that text trimmed, cut to its
\* first 100 characters followed by "..." when longer than 100; otherwise it is
\* the first 100 characters of the body followed by "..." when the body is
\* longer than 100, or the whole body when it is not.
C27_Summary ==
    pc = "summarized" =>
        LET body == section.Content
        IN  fileNames[1] = IF Len(BeforeFirstDot(body)) > 10
                           THEN Capped(TrimSpace(BeforeFirstDot(body)))
                           ELSE Capped(body)

\* the text before the first full stop had more than 10 characters but fewer
\* once trimmed, and it is the summary
C27_Witness ==
    /\ pc = "summarized"
    /\ Len(BeforeFirstDot(section.Content)) = 11
    /\ Len(fileNames[1]) = 9
    /\ Len(section.Content) > 11

\* where term stands in the vocabulary
TermPosition(term) == CHOOSE i \in 1..Len(termPatterns) : termPatterns[i] = term

\* C28: extractKeyTerms returns exactly the vocabulary terms that occur as a
\* substring of the lower-cased section body, in vocabulary-declaration order,
\* each at most once.
C28_KeyTerms ==
    pc = "extracted" =>
        /\ Range(fileNames)
               = {t \in Range(termPatterns) : Contains(ToLower(section.Content), t)}
        /\ \A i, j \in 1..Len(fileNames) :
               i < j => TermPosition(fileNames[i]) < TermPosition(fileNames[j])

\* a body that names, in upper case, a term declared late and then one
\* declared early gave both terms, the early one first
C28_Witness ==
    /\ pc = "extracted"
    /\ section.Content = <<"R","E","D","I","S"," ","a","p","i">>
    /\ fileNames = <<<<"a","p","i">>, <<"r","e","d","i","s">>>>

\* C29: after an update run that regenerated the index, an immediately
\* following update run without --force on the same project, with no chapter
\* file added or modified in between, reports "up to date" and writes nothing:
\* the index file is not rendered again and its content and modification time
\* stay as they were.
C29_SecondUpdateUpToDate ==
    [][(/\ pc = "idle"
        /\ cmd.name = "update"
        /\ result = Ok
        /\ cmd'.name = "update"
        /\ steps' = steps + 1
        /\ ~cmd'.forceUpdate
        /\ cmd'.projectPath = cmd.projectPath
        /\ cmd'.updateTemplate = cmd.updateTemplate) =>
           /\ result'.status = "up to date"
           /\ files' = files
           /\ dirs' = dirs]_vars

\* the second of two updates of a project found the index, which lists the
\* chapters of the context directory and is as new as each of them, up to date
C29_Witness ==
    /\ cmd.name = "update"
    /\ ~cmd.forceUpdate
    /\ cmd.projectPath = <<>>
    /\ steps = 2
    /\ result.status = "up to date"
    /\ ChapterFilesOf(files, <<>>) # {}
    /\ LET index == files[GetMainFileForTemplate("claude", <<>>)]
       IN  /\ Len(IndexEntries(index.content)) = Cardinality(ChapterFilesOf(files, <<>>))
           /\ \A n \in ChapterFilesOf(files, <<>>) :
                  files[PathOf(<<<<"c","o","n","t","e","x","t">>>>, n)].mtime <= index.mtime

\* a step that is a run of update
UpdateStep == pc = "idle" /\ cmd'.name = "update" /\ steps' = steps + 1

====
